---- MODULE Spec2Model ----
(***************************************************************************)
(* Model of cgtools.maya.ui.fill_selection: the interactive "Fill          *)
(* Selection" session (session data, edge selection, UV set preparation,   *)
(* event subscriptions, deferred clean up) and the host state it acts on.  *)
(* Further sections model the components the session relies on, each with  *)
(* a specification of its own: cgtools.maya.undo (SpecUndo),               *)
(* cgtools.maya.config_enum (SpecOptions, SpecEnum),                        *)
(* agnostic.layered_config (SpecLayered) and                               *)
(* cgtools.agnostic.ui.module_reloader (SpecReloader).                     *)
(***************************************************************************)
EXTENDS Integers, Sequences, FiniteSets, TLC

(***************************************************************************)
(* Bounds of the model                                                     *)
(***************************************************************************)
\* most subscription handles (job numbers + callback ids) live at once
MaxHandles == 10
\* most construction history nodes in the scene at once
MaxNodes == 5
\* most tasks waiting in the host's deferred (idle) queue
MaxDeferred == 4
\* most calls of fillSelection() that get past the selection check in one run
MaxStarts == 2
\* most calls of wrapped functions in progress at once, one inside the other
MaxDepth == 3
\* most calls of wrapped functions in one run
MaxCalls == 4

(***************************************************************************)
(* The scene: two polygon meshes under their transforms, and one transform *)
(* without a mesh.  Both meshes have the topology of a strip of three      *)
(* triangles.                                                              *)
(***************************************************************************)
Shapes == {"A", "B"}
Transforms == {"tA", "tB", "tC"}
Objects == Shapes \cup Transforms

\* cmds.objectType(object_, isAType="mesh") / isAType="transform"
IsMesh(o) == o \in Shapes
IsTransform(o) == o \in Transforms

\* cmds.listRelatives(transform, shapes=True, noIntermediate=True, type="mesh") or []
GetMeshShapes(t) ==
    IF t = "tA" THEN <<"A">> ELSE IF t = "tB" THEN <<"B">> ELSE <<>>

\* the mesh shape a component identifier's object names
ShapeOf(o) == IF IsTransform(o) THEN GetMeshShapes(o)[1] ELSE o

Verts == 1..5
Faces == 1..3
Edges == 1..7
FaceVerts(f) == CASE f = 1 -> {1, 2, 3} [] f = 2 -> {2, 3, 4} [] f = 3 -> {3, 4, 5}
EdgeVerts(e) ==
    CASE e = 1 -> {1, 2} [] e = 2 -> {1, 3} [] e = 3 -> {2, 3} [] e = 4 -> {2, 4}
      [] e = 5 -> {3, 4} [] e = 6 -> {3, 5} [] e = 7 -> {4, 5}
EdgeFaces(e) == {f \in Faces : EdgeVerts(e) \subseteq FaceVerts(f)}
\* the edges two faces have in common
EdgeFaces_shared(f, g) == {e \in Edges : {f, g} \subseteq EdgeFaces(e)}
\* a vertex face is the corner of face f at vertex v, numbered 10 * v + f
VtxFaces == UNION {{10 * v + f : v \in FaceVerts(f)} : f \in Faces}
VtxOf(vf) == vf \div 10
FaceOf(vf) == vf % 10

(***************************************************************************)
(* Sequences helpers                                                       *)
(***************************************************************************)
Range(s) == {s[i] : i \in DOMAIN s}

RECURSIVE SetToSeq(_)
\* the elements of a set of integers in ascending order
SetToSeq(S) ==
    IF S = {} THEN <<>>
    ELSE LET m == CHOOSE x \in S : \A y \in S : x <= y
         IN <<m>> \o SetToSeq(S \ {m})

RECURSIVE FirstOccurrences(_)
\* the distinct elements of a sequence, in order of first occurrence
FirstOccurrences(s) ==
    IF s = <<>> THEN <<>>
    ELSE LET r == FirstOccurrences(SubSeq(s, 1, Len(s) - 1))
         IN IF s[Len(s)] \in Range(r) THEN r ELSE Append(r, s[Len(s)])

RECURSIVE Flatten(_)
Flatten(ss) == IF ss = <<>> THEN <<>> ELSE Head(ss) \o Flatten(Tail(ss))

\* the permutations of 1..n as sequences
Perms(n) == {p \in [1..n -> 1..n] : \A i, j \in 1..n : p[i] = p[j] => i = j}

(***************************************************************************)
(* Component identifiers.  An identifier "<obj>.<type>[<id>]" is a record; *)
(* an object-level selection item has type "object" and id 0.              *)
(***************************************************************************)
Item(o, t, i) == [obj |-> o, type |-> t, id |-> i]

\* cmds.filterExpand(expand=False, selectionMask=m) or []: the items of one type
FilterExpand(sel, t) == SelectSeq(sel, LAMBDA it : it.type = t)

\* the objects of a list of identifiers, in order of first occurrence
ObjectsOf(items) == FirstOccurrences([i \in DOMAIN items |-> items[i].obj])

\* ids of the identifiers of type t on object o
IdsOn(items, o, t) == {items[i].id : i \in {j \in DOMAIN items : items[j].obj = o /\ items[j].type = t}}

\* a conversion result: per object (first occurrence order) the ids in ascending order
ToItems(items, t, Conv(_)) ==
    Flatten([k \in DOMAIN ObjectsOf(items) |->
        LET o == ObjectsOf(items)[k]
            ids == SetToSeq(Conv(o))
        IN [n \in DOMAIN ids |-> Item(o, t, ids[n])]])

(***************************************************************************)
(* cmds.polyListComponentConversion, for the flag combinations the tool    *)
(* uses.                                                                   *)
(***************************************************************************)
\* fromFace, toEdge: every edge of a selected face
FaceToEdgeAll(F) == {e \in Edges : EdgeFaces(e) \cap F # {}}
\* fromFace, toEdge, internal: edges with a selected face on both sides
FaceToEdgeInternal(F) == {e \in Edges : Cardinality(EdgeFaces(e) \cap F) = 2}
\* fromFace, toEdge, border: edges with a selected face on one side only
FaceToEdgeBorder(F) == {e \in Edges : Cardinality(EdgeFaces(e) \cap F) = 1}
\* fromVertex, toEdge: every edge at a selected vertex
VertexToEdgeAll(V) == {e \in Edges : EdgeVerts(e) \cap V # {}}
\* fromVertex, toEdge, internal: edges with both end points selected
VertexToEdgeInternal(V) == {e \in Edges : EdgeVerts(e) \subseteq V}
\* fromVertex, toFace: every face at a selected vertex
VertexToFace(V) == {f \in Faces : FaceVerts(f) \cap V # {}}
\* fromVertexFace, toEdge, vertexFaceAllEdges: every edge at a selected vertex face
VertexFaceToEdgeAll(VF) == {e \in Edges : \E vf \in VF : VtxOf(vf) \in EdgeVerts(e)}
\* fromVertexFace, toEdge, internal: edges with all of their vertex faces selected
VertexFaceToEdgeInternal(VF) ==
    {e \in Edges : \A v \in EdgeVerts(e) : \A f \in EdgeFaces(e) : 10 * v + f \in VF}
\* fromVertexFace, toFace: the faces of the selected vertex faces
VertexFaceToFace(VF) == {f \in Faces : \E vf \in VF : FaceOf(vf) = f}


(***************************************************************************)
(* Configuration: the option variables.  A handler reads them when it runs *)
(* and nothing caches them, so each handler takes the configuration it     *)
(* finds as an input.                                                      *)
(***************************************************************************)
EdgesFrom == {"all", "contained", "perimeter"}
ExitOn == {"enter_key", "reinvocation", "selection"}
ComponentType == {"edge", "face", "vertex"}

\* the defaults of Config
DefaultConfig ==
    [convertFacesTo |-> "perimeter", convertVerticesTo |-> "contained",
     convertVertexFacesTo |-> "all", exitCondition |-> "selection",
     exitOnSelectModeTypeChange |-> TRUE, outputType |-> "face",
     useExistingSeams |-> FALSE]

\* the output types the session model converts to
OutputTypes == {"face"}

\* the configurations finalize() may find: it reads the output type only
FinalizeConfigs == {[DefaultConfig EXCEPT !.outputType = t] : t \in OutputTypes}

\* the configurations fillSelection() may find: the options the session logic
\* branches on take every value, the conversion modes keep their defaults
ConfigSet ==
    {[DefaultConfig EXCEPT !.exitCondition = x, !.exitOnSelectModeTypeChange = b,
                           !.outputType = t] :
        x \in ExitOn, b \in BOOLEAN, t \in OutputTypes}

\* the configurations a start may find: it does not read the output type
StartConfigs == {c \in ConfigSet : c.outputType = DefaultConfig.outputType}

(***************************************************************************)
(* Edge selection                                                          *)
(***************************************************************************)
\* a face conversion with the contained and the perimeter modes exchanged
_getEdgesFromSelectedFaces_swapped(sel, c) ==
    LET selection == FilterExpand(sel, "f")
        F(o) == IdsOn(selection, o, "f")
    IN CASE c.convertFacesTo = "all" ->
              ToItems(selection, "e", LAMBDA o : FaceToEdgeAll(F(o)))
         [] c.convertFacesTo = "contained" ->
              ToItems(selection, "e", LAMBDA o : FaceToEdgeBorder(F(o)))
         [] c.convertFacesTo = "perimeter" ->
              ToItems(selection, "e", LAMBDA o : FaceToEdgeInternal(F(o)))

\* a face conversion whose contained mode yields every edge of the selected faces
_getEdgesFromSelectedFaces_containedAll(sel, c) ==
    LET selection == FilterExpand(sel, "f")
        F(o) == IdsOn(selection, o, "f")
    IN CASE c.convertFacesTo = "all" ->
              ToItems(selection, "e", LAMBDA o : FaceToEdgeAll(F(o)))
         [] c.convertFacesTo = "contained" ->
              ToItems(selection, "e", LAMBDA o : FaceToEdgeAll(F(o)))
         [] c.convertFacesTo = "perimeter" ->
              ToItems(selection, "e", LAMBDA o : FaceToEdgeBorder(F(o)))

_getEdgesFromSelectedFaces(sel, c) ==
    LET selection == FilterExpand(sel, "f")
        F(o) == IdsOn(selection, o, "f")
    IN CASE c.convertFacesTo = "all" ->
              ToItems(selection, "e", LAMBDA o : FaceToEdgeAll(F(o)))
         [] c.convertFacesTo = "contained" ->
              ToItems(selection, "e", LAMBDA o : FaceToEdgeInternal(F(o)))
         [] c.convertFacesTo = "perimeter" ->
              ToItems(selection, "e", LAMBDA o : FaceToEdgeBorder(F(o)))

_getEdgesFromSelectedVertices(sel, c) ==
    LET selection == FilterExpand(sel, "vtx")
        V(o) == IdsOn(selection, o, "vtx")
    IN CASE c.convertVerticesTo = "all" ->
              ToItems(selection, "e", LAMBDA o : VertexToEdgeAll(V(o)))
         [] c.convertVerticesTo = "contained" ->
              ToItems(selection, "e", LAMBDA o : VertexToEdgeInternal(V(o)))
         [] c.convertVerticesTo = "perimeter" ->
              ToItems(selection, "e", LAMBDA o : FaceToEdgeBorder(VertexToFace(V(o))))

_getEdgesFromSelectedVertexFaces(sel, c) ==
    LET selection == FilterExpand(sel, "vtxFace")
        VF(o) == IdsOn(selection, o, "vtxFace")
    IN CASE c.convertVertexFacesTo = "all" ->
              ToItems(selection, "e", LAMBDA o : VertexFaceToEdgeAll(VF(o)))
         [] c.convertVertexFacesTo = "contained" ->
              ToItems(selection, "e", LAMBDA o : VertexFaceToEdgeInternal(VF(o)))
         [] c.convertVertexFacesTo = "perimeter" ->
              ToItems(selection, "e", LAMBDA o : FaceToEdgeBorder(VertexFaceToFace(VF(o))))

\* a partition that groups by the object an edge is named on, transform or shape
_partitionEdgesByShape_byName(edges) ==
    LET keys == FirstOccurrences([i \in DOMAIN edges |-> edges[i].obj])
    IN [k \in DOMAIN keys |->
          [shape |-> keys[k],
           edges |-> SelectSeq(edges, LAMBDA e : e.obj = keys[k])]]

\* the ordered mapping shape -> edges, as a sequence of entries
_partitionEdgesByShape(edges) ==
    LET keys == FirstOccurrences([i \in DOMAIN edges |-> ShapeOf(edges[i].obj)])
    IN [k \in DOMAIN keys |->
          [shape |-> keys[k],
           edges |-> LET mine == SelectSeq(edges, LAMBDA e : ShapeOf(e.obj) = keys[k])
                     IN [n \in DOMAIN mine |-> Item(keys[k], "e", mine[n].id)]]]

\* an edge selection that keeps the first occurrence of each edge only
_getEdgesFromSelection_deduplicated(sel, c) ==
    _partitionEdgesByShape(FirstOccurrences(
        FilterExpand(sel, "e") \o _getEdgesFromSelectedFaces(sel, c)
            \o _getEdgesFromSelectedVertices(sel, c)
            \o _getEdgesFromSelectedVertexFaces(sel, c)))

_getEdgesFromSelection(sel, c) ==
    _partitionEdgesByShape(
        FilterExpand(sel, "e") \o _getEdgesFromSelectedFaces(sel, c)
            \o _getEdgesFromSelectedVertices(sel, c)
            \o _getEdgesFromSelectedVertexFaces(sel, c))

\* cmds.ls(selection=True, objectsOnly=True): a component names its shape
SelectedObjects(sel) ==
    FirstOccurrences([i \in DOMAIN sel |->
        IF sel[i].type = "object" THEN sel[i].obj ELSE ShapeOf(sel[i].obj)])

\* the set of mesh shapes of the selection
_getSelectedShapes(sel) ==
    {o \in Range(SelectedObjects(sel)) : IsMesh(o)}
        \cup UNION {Range(GetMeshShapes(o)) : o \in {x \in Range(SelectedObjects(sel)) : IsTransform(x)}}

\* the keys of the ordered mapping
Keys(shapeToEdges) == [i \in DOMAIN shapeToEdges |-> shapeToEdges[i].shape]


(***************************************************************************)
(* Session data and host state.  The handlers below are functions of a     *)
(* record w holding the whole state; the actions apply them.               *)
(*   sel, stype      host selection and component select type              *)
(*   hist, uv        per shape: construction history nodes, current UV set *)
(*   sd              _sessionData                                          *)
(*   jobs, cbs       live scriptJobs and scene callbacks of the host       *)
(*   pend            scriptJobs whose event has fired, not yet run         *)
(*   dq              the host's deferred (evalDeferred) queue              *)
(*   warned          the handler that ran last emitted a warning           *)
(*   prep, seams     the nodes that create a scratch UV set; per shape the *)
(*                   seams of its scratch UV set                           *)
(*   oseams          per shape the seams of the UV set it had before the   *)
(*                   session                                               *)
(*   pre, dbl, gone  history variables of the checks (see below)           *)
(***************************************************************************)
EmptySessionData ==
    [callbackIDs |-> <<>>, shapeToEdges |-> <<>>, history |-> <<>>,
     jobNumbers |-> <<>>, previousUVSets |-> <<>>, shapes |-> <<>>,
     selection |-> <<>>]

\* _SessionData.__bool__: a session is active iff some field is non-empty
Active(sd) ==
    \/ sd.callbackIDs # <<>> \/ sd.shapeToEdges # <<>> \/ sd.history # <<>>
    \/ sd.jobNumbers # <<>> \/ sd.previousUVSets # <<>> \/ sd.shapes # <<>>
    \/ sd.selection # <<>>

WorkingUVSet == "fillSelectionMap"

\* an event fires: every scriptJob now subscribed to it will run when the host is idle
Raise(w, ev) == [w EXCEPT !.pend = @ \cup {j.id : j \in {x \in w.jobs : x.event = ev}}]

\* cmds.select(items); an empty list selects nothing new
Select(w, items) ==
    IF items = <<>> THEN w ELSE Raise([w EXCEPT !.sel = items], "SelectionChanged")

AllNodes(w) == UNION {w.hist[s] : s \in Shapes}

\* a host command with construction history adds a node, named with the first free name
AddNode(w, shape) ==
    LET n == CHOOSE k \in 1..(Cardinality(AllNodes(w)) + 1) : k \notin AllNodes(w)
    IN [w EXCEPT !.hist[shape] = @ \cup {n}]

\* polyUVSet(create=True): the node that creates the scratch UV set, which is empty
CreateUVSet(w, shape) ==
    LET n == CHOOSE k \in 1..(Cardinality(AllNodes(w)) + 1) : k \notin AllNodes(w)
    IN [w EXCEPT !.hist[shape] = @ \cup {n}, !.prep = @ \cup {n}, !.seams[shape] = {}]

\* a shape has a scratch UV set while a node that created one is in its history
HasScratch(w, shape) == w.hist[shape] \cap w.prep # {}

\* the seams of the UV sets the scene starts with
OrigSeams == [s \in Shapes |-> IF s = "A" THEN {1} ELSE {}]

\* the seams of the UV set that is current on a shape
CurrentSeams(w, shape) ==
    IF w.uv[shape] = WorkingUVSet THEN w.seams[shape] ELSE w.oseams[shape]

\* a command that edits the UVs of a shape edits its current UV set
WithCurrentSeams(w, shape, s) ==
    IF w.uv[shape] = WorkingUVSet THEN [w EXCEPT !.seams[shape] = s]
    ELSE [w EXCEPT !.oseams[shape] = s]

_changeSelectType(w, type) == Raise([w EXCEPT !.stype = type], "SelectTypeChanged")

\* the mesh shapes a host command acts on when it is given an empty list: the selection
SelectedShapeSeq(sel) ==
    FirstOccurrences(Flatten([i \in DOMAIN SelectedObjects(sel) |->
        LET o == SelectedObjects(sel)[i]
        IN IF IsMesh(o) THEN <<o>> ELSE GetMeshShapes(o)]))

RECURSIVE CreateEach(_, _)
\* cmds.polyUVSet(shapes, create=True, uvSet="fillSelectionMap")
CreateEach(w, shapes) ==
    IF shapes = <<>> THEN w ELSE CreateEach(CreateUVSet(w, Head(shapes)), Tail(shapes))

RECURSIVE PrepareEach(_, _, _)
\* the loop of _prepareUVSets: mark the working set current, then copy the current
\* set into it (no uvSet is named, so the source is the set just made current) or
\* project, which leaves no seam
PrepareEach(w, c, shapes) ==
    IF shapes = <<>> THEN w
    ELSE LET shape == Head(shapes)
             w1 == [w EXCEPT !.uv[shape] = WorkingUVSet]
             w2 == WithCurrentSeams(w1, shape,
                        IF c.useExistingSeams THEN CurrentSeams(w1, shape) ELSE {})
         IN PrepareEach(w2, c, Tail(shapes))

\* returns the state and the previously current UV sets
_prepareUVSets(w, c, shapes) ==
    LET targets == IF shapes = <<>> THEN SelectedShapeSeq(w.sel) ELSE shapes
    IN [previousUVSets |-> [i \in DOMAIN targets |-> w.uv[targets[i]]],
        w |-> PrepareEach(CreateEach(w, targets), c, shapes)]

RECURSIVE CutEach(_, _)
\* cmds.polyMapCut(edges), one shape at a time
CutEach(w, entries) ==
    IF entries = <<>> THEN w
    ELSE LET shape == Head(entries).shape
             ids == {Head(entries).edges[i].id : i \in DOMAIN Head(entries).edges}
             w1 == WithCurrentSeams(w, shape, CurrentSeams(w, shape) \cup ids)
         IN CutEach(AddNode(w1, shape), Tail(entries))

\* a restore that computes the edge partition again from the selection it finds
_restoreSession_recomputing(w, c) ==
    LET w0 == [w EXCEPT !.sd.shapeToEdges = _getEdgesFromSelection(w.sel, c)]
        p == _prepareUVSets(w0, c, Keys(w0.sd.shapeToEdges))
        w1 == [p.w EXCEPT !.sd.previousUVSets = p.previousUVSets]
        w2 == CutEach(w1, w1.sd.shapeToEdges)
        w3 == _changeSelectType(w2, "meshUVShell")
    IN IF w3.sd.selection # <<>> THEN Select(w3, w3.sd.selection) ELSE w3

\* a restore that cuts before it prepares the scratch UV sets
_restoreSession_cutFirst(w, c) ==
    LET w0 == CutEach(w, w.sd.shapeToEdges)
        p == _prepareUVSets(w0, c, Keys(w0.sd.shapeToEdges))
        w1 == [p.w EXCEPT !.sd.previousUVSets = p.previousUVSets]
        w3 == _changeSelectType(w1, "meshUVShell")
    IN IF w3.sd.selection # <<>> THEN Select(w3, w3.sd.selection) ELSE w3

_restoreSession(w, c) ==
    LET p == _prepareUVSets(w, c, Keys(w.sd.shapeToEdges))
        w1 == [p.w EXCEPT !.sd.previousUVSets = p.previousUVSets]
        w2 == CutEach(w1, w1.sd.shapeToEdges)
        w3 == _changeSelectType(w2, "meshUVShell")
    IN IF w3.sd.selection # <<>> THEN Select(w3, w3.sd.selection) ELSE w3

\* the first free handle of the host
FreshHandle(used) == CHOOSE k \in 1..(Cardinality(used) + 1) : k \notin used

RECURSIVE AddJobs(_, _)
\* cmds.scriptJob(event=(e, f)) for each e: the state and the job numbers
AddJobs(w, events) ==
    IF events = <<>> THEN [w |-> w, ids |-> <<>>]
    ELSE LET id == FreshHandle({j.id : j \in w.jobs})
             r == AddJobs([w EXCEPT !.jobs = @ \cup {[id |-> id, event |-> Head(events)]}],
                          Tail(events))
         IN [w |-> r.w, ids |-> <<id>> \o r.ids]

RECURSIVE AddCallbacks(_, _)
\* om.MSceneMessage.addCallback(m, f) for each m: the state and the callback ids
AddCallbacks(w, messages) ==
    IF messages = <<>> THEN [w |-> w, ids |-> <<>>]
    ELSE LET id == FreshHandle({cb.id : cb \in w.cbs})
             r == AddCallbacks([w EXCEPT !.cbs = @ \cup {[id |-> id, message |-> Head(messages)]}],
                               Tail(messages))
         IN [w |-> r.w, ids |-> <<id>> \o r.ids]

\* the scriptJob events _startSession subscribes to, in order
JobEvents(c) ==
    (IF c.exitCondition = "selection" THEN <<"SelectionChanged">> ELSE <<>>)
    \o (IF c.exitOnSelectModeTypeChange
        THEN <<"SelectModeChanged", "SelectTypeChanged">> ELSE <<>>)
    \o <<"ToolChanged">>

SceneMessages == <<"kBeforeSave", "kAfterSave", "kAfterNew">>

\* raises NotImplementedError for the enter key, before anything is registered
_startSession(w, c) ==
    IF c.exitCondition = "enter_key" THEN w
    ELSE LET j == AddJobs(w, JobEvents(c))
             k == AddCallbacks(j.w, SceneMessages)
         IN [k.w EXCEPT !.sd.callbackIDs = k.ids, !.sd.jobNumbers = j.ids]


(***************************************************************************)
(* finalize, _cleanUp, clear                                               *)
(***************************************************************************)
\* an object that is a mesh or the transform of one
HasMesh(o) == IsMesh(o) \/ GetMeshShapes(o) # <<>>

\* the vertices, edges and faces a component identifier touches
ItemVerts(it) ==
    CASE it.type = "object" -> IF HasMesh(it.obj) THEN Verts ELSE {}
      [] it.type = "e" -> EdgeVerts(it.id)
      [] it.type = "f" -> FaceVerts(it.id)
      [] it.type = "vtxFace" -> {VtxOf(it.id)}
      [] OTHER -> {it.id}
ItemEdges(it) ==
    CASE it.type = "object" -> IF HasMesh(it.obj) THEN Edges ELSE {}
      [] it.type = "e" -> {it.id}
      [] it.type = "f" -> FaceToEdgeAll({it.id})
      [] it.type = "vtxFace" ->
            {e \in FaceToEdgeAll({FaceOf(it.id)}) : VtxOf(it.id) \in EdgeVerts(e)}
      [] OTHER -> VertexToEdgeAll({it.id})
ItemFaces(it) ==
    CASE it.type = "object" -> IF HasMesh(it.obj) THEN Faces ELSE {}
      [] it.type = "e" -> EdgeFaces(it.id)
      [] it.type = "f" -> {it.id}
      [] it.type = "vtxFace" -> {FaceOf(it.id)}
      [] OTHER -> VertexToFace({it.id})

\* cmds.polyListComponentConversion(selection, toEdge / toFace / toVertex = True)
ConvertTo(items, t) ==
    LET On(o) == {items[i] : i \in {j \in DOMAIN items : items[j].obj = o}}
    IN CASE t = "e" -> ToItems(items, "e", LAMBDA o : UNION {ItemEdges(it) : it \in On(o)})
         [] t = "f" -> ToItems(items, "f", LAMBDA o : UNION {ItemFaces(it) : it \in On(o)})
         [] t = "vtx" -> ToItems(items, "vtx", LAMBDA o : UNION {ItemVerts(it) : it \in On(o)})

\* cmds.evalDeferred(task)
EvalDeferred(w, task) == [w EXCEPT !.dq = Append(@, task)]

\* a finalize that defers the clear before the clean up
finalize_clearFirst(w, c) ==
    LET selection ==
            CASE c.outputType = "edge" -> ConvertTo(w.sel, "e")
              [] c.outputType = "face" -> ConvertTo(w.sel, "f")
              [] c.outputType = "vertex" -> ConvertTo(w.sel, "vtx")
        type ==
            CASE c.outputType = "edge" -> "polymeshEdge"
              [] c.outputType = "face" -> "polymeshFace"
              [] c.outputType = "vertex" -> "polymeshVtxFace"
        w1 == _changeSelectType(w, type)
        w2 == EvalDeferred(w1, "clear")
        w3 == Select(w2, selection)
    IN EvalDeferred(w3, "_cleanUp")

\* a finalize that leaves the component select type as it finds it
finalize_keepingType(w, c) ==
    LET selection ==
            CASE c.outputType = "edge" -> ConvertTo(w.sel, "e")
              [] c.outputType = "face" -> ConvertTo(w.sel, "f")
              [] c.outputType = "vertex" -> ConvertTo(w.sel, "vtx")
        w2 == EvalDeferred(w, "_cleanUp")
        w3 == Select(w2, selection)
    IN EvalDeferred(w3, "clear")

finalize(w, c) ==
    LET selection ==
            CASE c.outputType = "edge" -> ConvertTo(w.sel, "e")
              [] c.outputType = "face" -> ConvertTo(w.sel, "f")
              [] c.outputType = "vertex" -> ConvertTo(w.sel, "vtx")
        type ==
            CASE c.outputType = "edge" -> "polymeshEdge"
              [] c.outputType = "face" -> "polymeshFace"
              [] c.outputType = "vertex" -> "polymeshVtxFace"
        w1 == _changeSelectType(w, type)
        w2 == EvalDeferred(w1, "_cleanUp")
        w3 == Select(w2, selection)
    IN EvalDeferred(w3, "clear")

\* the smaller of two lengths: zip stops at the shorter sequence
Min(a, b) == IF a <= b THEN a ELSE b

RECURSIVE RemoveNewNodes(_, _)
\* the first loop of _cleanUp from position i on; ok is FALSE when set(None) raised
RemoveNewNodes(w, i) ==
    IF i > Min(Len(w.sd.shapeToEdges), Len(w.sd.history)) THEN [w |-> w, ok |-> TRUE]
    ELSE LET shape == w.sd.shapeToEdges[i].shape
             listed == w.hist[shape]
             newNodes == listed \ w.sd.history[i]
         IN IF listed = {} THEN [w |-> w, ok |-> FALSE]
            ELSE RemoveNewNodes(
                    [w EXCEPT !.hist[shape] = @ \ newNodes,
                              !.prep = @ \ newNodes,
                              !.seams[shape] =
                                  IF (w.hist[shape] \cap w.prep) \subseteq newNodes
                                  THEN {} ELSE @,
                              !.gone = @ \cup {<<shape, n>> : n \in newNodes \cap w.pre.hist[shape]},
                              !.pre.hist[shape] = @ \ newNodes],
                    i + 1)

RECURSIVE ResetCurrent(_, _)
\* the second loop of _cleanUp from position i on
ResetCurrent(w, i) ==
    IF i > Min(Len(w.sd.shapeToEdges), Len(w.sd.previousUVSets)) THEN w
    ELSE ResetCurrent([w EXCEPT !.uv[w.sd.shapeToEdges[i].shape] = w.sd.previousUVSets[i]],
                      i + 1)

\* a clean up that also empties the session data
_cleanUp_clearing(w) ==
    LET r == RemoveNewNodes([w EXCEPT !.sd.selection = w.sel], 1)
        w1 == IF r.ok THEN ResetCurrent(r.w, 1) ELSE r.w
    IN [w1 EXCEPT !.sd = EmptySessionData]

_cleanUp(w) ==
    LET w1 == [w EXCEPT !.sd.selection = w.sel]
        r == RemoveNewNodes(w1, 1)
    IN IF r.ok THEN ResetCurrent(r.w, 1) ELSE r.w

\* _SessionData.clear
clear(w) ==
    LET cbIds == Range(w.sd.callbackIDs)
        jobIds == Range(w.sd.jobNumbers)
    IN [w EXCEPT !.cbs = {cb \in @ : cb.id \notin cbIds},
                 !.jobs = {j \in @ : j.id \notin jobIds},
                 !.dbl = @ \/ ~(cbIds \subseteq {cb.id : cb \in w.cbs})
                           \/ ~(jobIds \subseteq {j.id : j \in w.jobs})
                           \/ Cardinality(cbIds) # Len(w.sd.callbackIDs)
                           \/ Cardinality(jobIds) # Len(w.sd.jobNumbers),
                 !.sd = EmptySessionData]

(***************************************************************************)
(* fillSelection.  order is the iteration order of the set of selected     *)
(* shapes.                                                                 *)
(***************************************************************************)
Orderings(S) == {q \in [1..Cardinality(S) -> S] : \A i, j \in DOMAIN q : q[i] = q[j] => i = j}

\* a fillSelection that starts a session whatever the session and the selection are
fillSelection_unguarded(w, c, order) ==
    LET history == [i \in DOMAIN order |-> w.hist[order[i]]]
        shapeToEdges == _getEdgesFromSelection(w.sel, c)
        w1 == [w EXCEPT !.sd.history = history, !.sd.shapeToEdges = shapeToEdges,
                        !.pre = [hist |-> w.hist, uv |-> w.uv], !.gone = {}]
    IN _startSession(_restoreSession(w1, c), c)

fillSelection(w, c, order) ==
    IF Active(w.sd) /\ c.exitCondition = "reinvocation"
    THEN finalize(w, c)
    ELSE IF _getSelectedShapes(w.sel) = {} THEN [w EXCEPT !.warned = TRUE]
    ELSE LET history == [i \in DOMAIN order |-> w.hist[order[i]]]
             shapeToEdges == _getEdgesFromSelection(w.sel, c)
             w1 == [w EXCEPT !.sd.history = history, !.sd.shapeToEdges = shapeToEdges,
                             !.pre = [hist |-> w.hist, uv |-> w.uv], !.gone = {}]
         IN _startSession(_restoreSession(w1, c), c)


(***************************************************************************)
(* The state machine                                                       *)
(***************************************************************************)
VARIABLES
    sel, stype, hist, uv, sd, jobs, cbs, pend, dq, warned, prep, seams, oseams,
    saving,     \* the host is between the before-save and after-save messages
    pre,        \* history: each shape's construction history (less what gone records) and
                \* current UV set at the last start
    dbl,        \* history: clear released a handle that was not live, or one handle twice
    gone,       \* history: <<shape, node>> deleted by _cleanUp although there before the start
    last,       \* history: the handler that ran last and how it ended
    scn,        \* history: how far the scenario start, finalize, clean up has come
    fin,        \* history: finalize() ran on an active session, then idle work only
    starts,     \* history: the calls of fillSelection() that got past the selection check
    config,     \* the option variables of a run under one configuration (SpecOnce)
    out         \* the lists the edge selection step and _prepareUVSets returned (SpecOnce)

\* the variables of the session and its scene
sessionVars == <<sel, stype, hist, uv, sd, jobs, cbs, pend, dq, warned, prep, seams, oseams, saving,
                 pre, dbl, gone, scn, fin, starts, config, out>>

\* cgtools.maya.undo: the undo queue of the host and the wrapped calls in progress
VARIABLES
    undoState,  \* cmds.undoInfo(query=True, state=True)
    openChunks, \* the names of the undo chunks that are open, innermost last
    frames,     \* the calls of wrapped functions in progress, innermost last
    raising,    \* an exception is on its way out of the calls in progress
    nCalls,     \* history: the calls of wrapped functions so far
    nOpened,    \* history: the openChunk calls so far
    nClosed     \* history: the closeChunk calls so far

undoVars == <<undoState, openChunks, frames, raising, nCalls, nOpened, nClosed>>

\* no wrapped call is in progress and none has been made
UndoIdle ==
    /\ undoState = TRUE /\ openChunks = <<>> /\ frames = <<>> /\ raising = FALSE
    /\ nCalls = 0 /\ nOpened = 0 /\ nClosed = 0

\* cgtools.maya.config_enum: one option and the option variables of the host
VARIABLES
    option,      \* the option the run works on
    optionVars,  \* the option variables of the host: variable -> stored value
    ret,         \* what the last getValue() returned
    cmdsWarning, \* the last handler called cmds.warning
    setArg       \* history: the value the last handler set

optVars == <<option, optionVars, ret, cmdsWarning, setArg>>

\* Python's None
PyNone == [k |-> "None", v |-> 0]

\* no option is in use and the host stores no option variable
OptionsIdle ==
    /\ option = "FLOAT" /\ optionVars = <<>>
    /\ ret = PyNone /\ cmdsWarning = FALSE /\ setArg = PyNone

\* agnostic.layered_config: the directories on disk and one LayeredConfig object
VARIABLES
    userDirs,     \* the candidates for the user directory that are directories
    files,        \* layer -> whether its directory exists and what its test_config.json holds
    _config_dirs, \* the directories the object cached, highest priority first
    config_sum    \* what the last get_config() returned

lcVars == <<userDirs, files, _config_dirs, config_sum>>

\* no LayeredConfig object has been made
LayeredIdle ==
    /\ userDirs = {} /\ files = <<>> /\ _config_dirs = <<>> /\ config_sum = <<>>

\* cgtools.agnostic.ui.module_reloader: the interpreter's modules and one widget
VARIABLES
    sysModules,   \* the names in sys.modules
    widget        \* the ModuleReloaderWidget, its models and its selection models

mrVars == <<sysModules, widget>>

\* no widget has been made
ReloaderIdle == sysModules = {} /\ widget = PyNone

\* cgtools.maya.config_enum: one ConfigEnum class while its members are made
VARIABLES
    enumModule,   \* the parts of the __module__ of the enum class
    _variable     \* member name -> the variable name of the member, for the members made

ceVars == <<enumModule, _variable>>

\* no enum class is being made
EnumIdle == enumModule = <<>> /\ _variable = <<>>

vars == <<sessionVars, last, undoVars, optVars, lcVars, mrVars, ceVars>>

\* the variables outside of each component
notSession == <<undoVars, optVars, lcVars, mrVars, ceVars>>
notUndo == <<sessionVars, optVars, lcVars, mrVars, ceVars>>
notOptions == <<sessionVars, undoVars, lcVars, mrVars, ceVars>>
notLayered == <<sessionVars, undoVars, optVars, mrVars, ceVars>>
notReloader == <<sessionVars, undoVars, optVars, lcVars, ceVars>>
notEnum == <<sessionVars, undoVars, optVars, lcVars, mrVars>>

\* the scene a new file holds
InitHist == [s \in Shapes |-> IF s = "A" THEN {1} ELSE {}]
InitUV == [s \in Shapes |-> IF s = "A" THEN "map1" ELSE "map2"]
InitSeams == [s \in Shapes |-> {}]
InitSelectType == "polymeshVertex"
InitPre == [hist |-> InitHist, uv |-> InitUV]

\* the state as the record the handlers work on; a warning lasts until the next handler
W ==
    [sel |-> sel, stype |-> stype, hist |-> hist, uv |-> uv, sd |-> sd, jobs |-> jobs,
     cbs |-> cbs, pend |-> pend, dq |-> dq, warned |-> FALSE, prep |-> prep,
     seams |-> seams, oseams |-> oseams, pre |-> pre, dbl |-> dbl, gone |-> gone]

\* the history variables pre and gone are kept only while a session is active
Apply(w) ==
    /\ sel' = w.sel /\ stype' = w.stype /\ hist' = w.hist /\ uv' = w.uv /\ sd' = w.sd
    /\ jobs' = w.jobs /\ cbs' = w.cbs /\ pend' = w.pend /\ dq' = w.dq
    /\ warned' = w.warned /\ dbl' = w.dbl
    /\ prep' = w.prep /\ seams' = w.seams /\ oseams' = w.oseams
    /\ pre' = IF Active(w.sd) THEN w.pre ELSE InitPre
    /\ gone' = IF Active(w.sd) THEN w.gone ELSE {}

\* the host has no idle work left: the user interacts with an idle host
Idle == ~saving /\ dq = <<>> /\ pend = {}

\* the bounds of the model
Fits(w) ==
    /\ Cardinality(AllNodes(w)) <= MaxNodes
    /\ Cardinality(w.jobs) + Cardinality(w.cbs) <= MaxHandles
    /\ Len(w.dq) <= MaxDeferred

\* the selections the user makes
Selections ==
    { <<>>,
      <<Item("A", "e", 3)>>,
      <<Item("A", "e", 3), Item("B", "e", 5)>>,
      <<Item("tB", "object", 0), Item("tA", "vtx", 2), Item("tA", "vtx", 3)>>,
      <<Item("tC", "object", 0)>> }

\* the component select types the user switches to
UserSelectTypes == {"polymeshVertex"}

\* nothing returned yet
NoOut == [faces |-> <<>>, all |-> <<>>, previousUVSets |-> <<>>]

\* no session, in the scene of a new file
SessionIdle ==
    /\ sel = <<>> /\ config = DefaultConfig /\ out = NoOut
    /\ stype = InitSelectType
    /\ hist = InitHist /\ uv = InitUV /\ prep = {} /\ seams = InitSeams /\ oseams = OrigSeams
    /\ sd = EmptySessionData
    /\ jobs = {} /\ cbs = {} /\ pend = {} /\ dq = <<>>
    /\ warned = FALSE /\ saving = FALSE
    /\ pre = InitPre /\ dbl = FALSE /\ gone = {}
    /\ scn = 0 /\ fin = FALSE /\ starts = 0

Init ==
    /\ sel = <<>> /\ config = DefaultConfig /\ out = NoOut
    /\ stype = InitSelectType
    /\ hist = InitHist /\ uv = InitUV /\ prep = {} /\ seams = InitSeams /\ oseams = OrigSeams
    /\ sd = EmptySessionData
    /\ jobs = {} /\ cbs = {} /\ pend = {} /\ dq = <<>>
    /\ warned = FALSE /\ saving = FALSE
    /\ pre = InitPre /\ dbl = FALSE /\ gone = {}
    /\ last = "init" /\ scn = 0 /\ fin = FALSE /\ starts = 0
    /\ UndoIdle /\ OptionsIdle /\ LayeredIdle /\ ReloaderIdle /\ EnumIdle

\* how a call of fillSelection() ends
FillOutcome(w, c) ==
    IF Active(w.sd) /\ c.exitCondition = "reinvocation" THEN "reinvoked"
    ELSE IF _getSelectedShapes(w.sel) = {} THEN "warned"
    ELSE IF c.exitCondition = "enter_key" THEN "startRaised"
    ELSE "started"

\* the scenario "start from Idle, then finalize, then its deferred clean up", with
\* nothing in between but the events that trigger the finalize
ScnNext(l) ==
    CASE l = "started" -> IF Active(sd) THEN 0 ELSE 1
      [] l \in {"finalize", "reinvoked"} -> IF scn \in {1, 2} THEN 2 ELSE 0
      [] l = "_cleanUp" -> IF scn = 2 THEN 3 ELSE 0
      [] l \in {"user", "deadJob"} -> IF scn \in {1, 2} THEN scn ELSE 0
      [] OTHER -> 0

\* finalize() ran on an active session and only idle work of the host ran since
FinNext(l) ==
    CASE l \in {"finalize", "reinvoked"} -> fin \/ Active(sd)
      [] l \in {"_cleanUp", "clear", "deadJob"} -> fin
      [] OTHER -> FALSE

\* a handler ran: w is the state it leaves, l the handler and how it ended
Step(w, l) ==
    /\ Fits(w) /\ Apply(w)
    /\ last' = l /\ scn' = ScnNext(l) /\ fin' = FinNext(l)
    /\ UNCHANGED <<config, out>>
    /\ UNCHANGED notSession

\* the user (or a script) calls fillSelection()
FillSelection ==
    /\ Idle
    /\ \E c \in ConfigSet, order \in Orderings(_getSelectedShapes(sel)) :
          /\ FillOutcome(W, c) = "reinvoked" \/ c \in StartConfigs
          /\ \E w \in {fillSelection(W, c, order)} : Step(w, FillOutcome(W, c))
    /\ starts' = IF last' \in {"started", "startRaised"} THEN starts + 1 ELSE starts
    /\ starts' <= MaxStarts
    /\ UNCHANGED saving

\* a script calls finalize() to end the session
Finalize ==
    /\ Idle /\ Active(sd)
    /\ \E c \in FinalizeConfigs : \E w \in {finalize(W, c)} : Step(w, "finalize")
    /\ UNCHANGED <<saving, starts>>

\* the host is idle and runs a scriptJob whose event fired; every job calls finalize()
RunScriptJob ==
    /\ ~saving
    /\ \E id \in pend, c \in FinalizeConfigs :
          \E w0 \in {[W EXCEPT !.pend = @ \ {id}]} :
             IF id \in {j.id : j \in jobs}
             THEN \E w \in {finalize(w0, c)} : Step(w, "finalize")
             ELSE Step(w0, "deadJob")
    /\ UNCHANGED <<saving, starts>>

\* the host is idle and runs the first deferred task
RunDeferred ==
    /\ ~saving
    /\ dq # <<>>
    /\ \E w0 \in {[W EXCEPT !.dq = Tail(@)]} :
          \E w \in {IF Head(dq) = "_cleanUp" THEN _cleanUp(w0) ELSE clear(w0)} :
             Step(w, Head(dq))
    /\ UNCHANGED <<saving, starts>>

\* the user changes the selection
UserSelect ==
    /\ Idle
    /\ \E s \in Selections :
          s # sel /\ Step(Raise([W EXCEPT !.sel = s], "SelectionChanged"), "select")
    /\ UNCHANGED <<saving, starts>>

\* the user changes the component select type
UserSelectType ==
    /\ Idle
    /\ \E t \in UserSelectTypes :
          t # stype /\ Step(Raise([W EXCEPT !.stype = t], "SelectTypeChanged"), "user")
    /\ UNCHANGED <<saving, starts>>

\* the user changes the select mode or the tool
UserEvent ==
    /\ Idle
    /\ \E ev \in {"SelectModeChanged", "ToolChanged"} :
          /\ \E j \in jobs : j.event = ev
          /\ Step(Raise(W, ev), "user")
    /\ UNCHANGED <<saving, starts>>

RECURSIVE RunCallbacks(_, _, _)
\* the host runs the callbacks of one scene message, in the order they were added;
\* a callback removed by an earlier one does not run
RunCallbacks(w, ids, c) ==
    IF ids = <<>> THEN w
    ELSE LET live == {cb \in w.cbs : cb.id = Head(ids)}
             w1 == IF live = {} THEN w
                   ELSE LET m == (CHOOSE cb \in live : TRUE).message
                        IN CASE m = "kBeforeSave" -> _cleanUp(w)
                             [] m = "kAfterSave" -> _restoreSession(w, c)
                             [] m = "kAfterNew" -> clear(w)
         IN RunCallbacks(w1, Tail(ids), c)

CallbacksOf(m) == SetToSeq({cb.id : cb \in {x \in cbs : x.message = m}})

\* the scene is about to be saved: cleanUpBeforeSave
BeforeSave ==
    /\ Idle
    /\ \E w \in {RunCallbacks(W, CallbacksOf("kBeforeSave"), DefaultConfig)} :
          Step(w, "beforeSave")
    /\ saving' = TRUE
    /\ UNCHANGED starts

\* the scene has been saved: restoreSessionAfterSave
AfterSave ==
    /\ saving
    /\ \E w \in {RunCallbacks(W, CallbacksOf("kAfterSave"), DefaultConfig)} :
          Step(w, "afterSave")
    /\ saving' = FALSE
    /\ UNCHANGED starts

\* a new scene replaces the scene: clearSessionAfterNewScene
NewScene ==
    /\ ~saving
    /\ \E w \in {RunCallbacks([W EXCEPT !.sel = <<>>, !.hist = InitHist, !.uv = InitUV,
                                         !.prep = {}, !.seams = InitSeams,
                                         !.oseams = OrigSeams],
                              CallbacksOf("kAfterNew"), DefaultConfig)} :
          Step(w, "newScene")
    /\ UNCHANGED <<saving, starts>>

Next ==
    \/ FillSelection \/ Finalize \/ RunScriptJob \/ RunDeferred
    \/ UserSelect \/ UserSelectType \/ UserEvent
    \/ BeforeSave \/ AfterSave \/ NewScene

Spec == Init /\ [][Next]_vars

(***************************************************************************)
(* One session under one configuration.  The selection and the option      *)
(* variables are drawn at the start and every conversion mode, the seam    *)
(* flag and every output type occur; the run is the edge selection step,   *)
(* _prepareUVSets on its own, or fillSelection(), finalize() and the       *)
(* deferred tasks.                                                         *)
(***************************************************************************)
OnceSelections ==
    { <<>>,
      <<Item("A", "e", 3)>>,
      <<Item("A", "e", 3), Item("B", "e", 5)>>,
      <<Item("B", "e", 5), Item("A", "e", 3), Item("B", "e", 1)>>,
      <<Item("tA", "e", 2), Item("A", "e", 3)>>,
      <<Item("A", "f", 1)>>,
      <<Item("A", "f", 1), Item("A", "f", 2)>>,
      <<Item("A", "f", 1), Item("A", "f", 3)>>,
      <<Item("A", "f", 1), Item("A", "f", 2), Item("A", "f", 3)>>,
      <<Item("A", "e", 1), Item("A", "f", 2), Item("A", "vtx", 4), Item("A", "vtx", 5),
        Item("A", "vtxFace", 11)>>,
      <<Item("tB", "object", 0), Item("tA", "vtx", 2), Item("tA", "vtx", 3)>>,
      <<Item("A", "map", 1), Item("A", "map", 2), Item("A", "map", 3)>> }

OnceConfigs ==
    {[DefaultConfig EXCEPT !.convertFacesTo = f, !.convertVerticesTo = v,
                           !.convertVertexFacesTo = vf, !.useExistingSeams = u,
                           !.outputType = t] :
        f \in EdgesFrom, v \in EdgesFrom, vf \in EdgesFrom, u \in BOOLEAN,
        t \in ComponentType}

InitOnce ==
    /\ sel \in OnceSelections /\ config \in OnceConfigs /\ out = NoOut
    /\ stype = InitSelectType
    /\ hist = InitHist /\ uv = InitUV /\ prep = {} /\ seams = InitSeams /\ oseams = OrigSeams
    /\ sd = EmptySessionData
    /\ jobs = {} /\ cbs = {} /\ pend = {} /\ dq = <<>>
    /\ warned = FALSE /\ saving = FALSE
    /\ pre = InitPre /\ dbl = FALSE /\ gone = {}
    /\ last = "init" /\ scn = 0 /\ fin = FALSE /\ starts = 0
    /\ UndoIdle /\ OptionsIdle /\ LayeredIdle /\ ReloaderIdle /\ EnumIdle

\* a handler ran under the configuration of the run
StepOnce(w, l) ==
    /\ Apply(w)
    /\ last' = l /\ scn' = ScnNext(l) /\ fin' = FinNext(l)
    /\ UNCHANGED <<saving, starts, config>>
    /\ UNCHANGED notSession

\* the edge selection step on its own
EdgeSelection ==
    /\ last = "init"
    /\ out' = [out EXCEPT !.faces = _getEdgesFromSelectedFaces(sel, config),
                          !.all = _getEdgesFromSelection(sel, config)]
    /\ StepOnce(W, "edges")

\* _prepareUVSets on its own, on the shapes of the edge selection
PrepareUVSets ==
    /\ last = "edges"
    /\ \E p \in {_prepareUVSets(W, config, Keys(out.all))} :
          /\ out' = [out EXCEPT !.previousUVSets = p.previousUVSets]
          /\ StepOnce(p.w, "prepared")

\* fillSelection() from Idle
StartOnce ==
    /\ last = "edges"
    /\ \E order \in Orderings(_getSelectedShapes(sel)) :
          \E w \in {fillSelection(W, config, order)} : StepOnce(w, FillOutcome(W, config))
    /\ UNCHANGED out

\* finalize() on the session
FinalizeOnce ==
    /\ last = "started"
    /\ \E w \in {finalize(W, config)} : StepOnce(w, "finalize")
    /\ UNCHANGED out

NextOnce == EdgeSelection \/ PrepareUVSets \/ StartOnce \/ FinalizeOnce \/ RunDeferred

SpecOnce == InitOnce /\ [][NextOnce]_vars

(***************************************************************************)
(* cgtools.maya.undo.  undoChunk(name) wraps a function in the context     *)
(* manager undoChunkOpened(name).  The wrapped functions are finalize,     *)
(* _cleanUp and _restoreSession; a wrapped function may be called while    *)
(* another one runs, and a body returns or raises.  The user switches the  *)
(* undo queue on and off between calls.                                    *)
(***************************************************************************)
\* the wrapped functions and the names of their chunks
Wrapped == {"finalize", "_cleanUp", "_restoreSession"}
ChunkName(func) ==
    CASE func = "finalize" -> "Convert the fill selection"
      [] func = "_cleanUp" -> "Clean up changes from fill selection"
      [] func = "_restoreSession" -> "Prepare the scene for fill selection"

\* the undo state as the record the context manager works on
U ==
    [undoState |-> undoState, openChunks |-> openChunks, frames |-> frames,
     nOpened |-> nOpened, nClosed |-> nClosed]

\* undoChunkOpened up to its yield: the state is queried once and kept in the frame
undoChunkOpened_enter(u, name) ==
    LET undoEnabled == u.undoState
        frame == [name |-> name, undoEnabled |-> undoEnabled, before |-> Len(u.openChunks)]
    IN IF undoEnabled
       THEN [u EXCEPT !.openChunks = Append(@, name), !.nOpened = @ + 1,
                      !.frames = Append(@, frame)]
       ELSE [u EXCEPT !.frames = Append(@, frame)]

\* a context manager that closes its chunk only when the body returns
ClosesChunk_onReturnOnly(frame, raised) == frame.undoEnabled /\ ~raised

\* the finally clause closes the chunk, whether the body returned or raised
ClosesChunk(frame, raised) == frame.undoEnabled

\* undoChunkOpened after its yield; closeChunk closes the innermost open chunk
undoChunkOpened_exit(u, raised) ==
    LET frame == u.frames[Len(u.frames)]
        popped == [u EXCEPT !.frames = SubSeq(@, 1, Len(@) - 1)]
    IN IF ClosesChunk(frame, raised)
       THEN [popped EXCEPT !.openChunks = SubSeq(@, 1, Len(@) - 1), !.nClosed = @ + 1]
       ELSE popped

ApplyUndo(u) ==
    /\ openChunks' = u.openChunks /\ frames' = u.frames
    /\ nOpened' = u.nOpened /\ nClosed' = u.nClosed
    /\ UNCHANGED <<undoState, notUndo>>

InitUndo ==
    /\ SessionIdle /\ OptionsIdle /\ LayeredIdle /\ ReloaderIdle /\ EnumIdle /\ last = "init"
    /\ undoState \in BOOLEAN /\ openChunks = <<>> /\ frames = <<>> /\ raising = FALSE
    /\ nCalls = 0 /\ nOpened = 0 /\ nClosed = 0

\* a wrapped function is called, by the host or by the body of another one
CallWrapped ==
    /\ ~raising /\ Len(frames) < MaxDepth /\ nCalls < MaxCalls
    /\ \E func \in Wrapped : ApplyUndo(undoChunkOpened_enter(U, ChunkName(func)))
    /\ nCalls' = nCalls + 1
    /\ last' = "call" /\ UNCHANGED raising

\* the body of the innermost call returns
ReturnWrapped ==
    /\ ~raising /\ frames # <<>>
    /\ ApplyUndo(undoChunkOpened_exit(U, FALSE))
    /\ last' = "return" /\ UNCHANGED <<raising, nCalls>>

\* the body of the innermost call raises
RaiseWrapped ==
    /\ ~raising /\ frames # <<>>
    /\ ApplyUndo(undoChunkOpened_exit(U, TRUE))
    /\ last' = "raise" /\ raising' = TRUE /\ UNCHANGED nCalls

\* the exception leaves the body of the call around it
PropagateWrapped ==
    /\ raising /\ frames # <<>>
    /\ ApplyUndo(undoChunkOpened_exit(U, TRUE))
    /\ last' = "propagate" /\ UNCHANGED <<raising, nCalls>>

\* the exception is caught, by the body it reached or by the host
CatchRaised ==
    /\ raising
    /\ raising' = FALSE /\ last' = "catch"
    /\ UNCHANGED <<undoState, openChunks, frames, nCalls, nOpened, nClosed, notUndo>>

\* the user switches the undo queue on or off
SetUndoState ==
    /\ ~raising /\ frames = <<>>
    /\ undoState' = ~undoState /\ last' = "undoInfo"
    /\ UNCHANGED <<openChunks, frames, raising, nCalls, nOpened, nClosed, notUndo>>

NextUndo ==
    \/ CallWrapped \/ ReturnWrapped \/ RaiseWrapped \/ PropagateWrapped
    \/ CatchRaised \/ SetUndoState

SpecUndo == InitUndo /\ [][NextUndo]_vars

(***************************************************************************)
(* cgtools.maya.config_enum.  An option of a ConfigEnum has a default, a   *)
(* serializer and a deserializer, and is stored in an option variable of   *)
(* the host.  The options are those of the test configuration: a float, an *)
(* int, a string, arrays of those, a bool serialized as int, an int enum   *)
(* and a string enum.  A run works on one option; the host (the user, a    *)
(* script) may store any value in its variable or remove it.               *)
(*                                                                         *)
(* Python values are records [k, v]; a float is counted in tenths.  The    *)
(* host is taken to behave as follows: clearArray leaves an empty array    *)
(* whatever was stored, an append to a variable that holds no array of the *)
(* appended type makes it an array of one element, and the query of an     *)
(* empty array is an empty list.                                           *)
(***************************************************************************)
PyFloat(n) == [k |-> "float", v |-> n]
PyInt(i) == [k |-> "int", v |-> i]
PyStr(s) == [k |-> "str", v |-> s]
PyBool(b) == [k |-> "bool", v |-> b]
PyList(seq) == [k |-> "list", v |-> seq]
\* members of the enums IntEnum (an int enum) and StrEnum (an enum of strings)
IntEnumMember(i) == [k |-> "IntEnum", v |-> i]
StrEnumMember(s) == [k |-> "StrEnum", v |-> s]
IntEnumValues == {0, 1, 2, 3}
StrEnumValues == {"foo", "bar", "baz"}

Options ==
    {"FLOAT", "INT", "STRING", "FLOAT_ARRAY", "INT_ARRAY", "STRING_ARRAY", "BOOL",
     "INT_ENUM", "STRING_ENUM"}

\* ConfigVar.default
Default(o) ==
    CASE o = "FLOAT" -> PyFloat(12)
      [] o = "INT" -> PyInt(3)
      [] o = "STRING" -> PyStr("foobar")
      [] o = "FLOAT_ARRAY" -> PyList(<<PyFloat(5), PyInt(1), PyFloat(25)>>)
      [] o = "INT_ARRAY" -> PyList(<<PyInt(1), PyInt(2)>>)
      [] o = "STRING_ARRAY" -> PyList(<<PyStr("foo"), PyStr("bar")>>)
      [] o = "BOOL" -> PyBool(TRUE)
      [] o = "INT_ENUM" -> IntEnumMember(1)
      [] o = "STRING_ENUM" -> StrEnumMember("bar")

\* ConfigVar.serialize: None (the value as it is), int or str
SerializerOf(o) ==
    CASE o \in {"BOOL", "INT_ENUM"} -> "int"
      [] o = "STRING_ENUM" -> "str"
      [] OTHER -> "identity"

\* the deserializer is the type of the default
DeserializerOf(o) == Default(o).k

\* the value of a number in tenths; True is 1
Tenths(x) ==
    CASE x.k = "float" -> x.v
      [] x.k \in {"int", "IntEnum"} -> 10 * x.v
      [] x.k = "bool" -> IF x.v THEN 10 ELSE 0
IsNumber(x) == x.k \in {"float", "int", "IntEnum", "bool"}

\* int(x) of a number: towards zero
Truncate(t) == IF t >= 0 THEN t \div 10 ELSE -((-t) \div 10)

\* the strings that int() and float() parse, with their values in tenths
NumericStrings == {"7", "1.5"}
ParsedTenths(s) == IF s = "7" THEN 70 ELSE 15

\* the characters of a string, as list(s) gives them
Chars(s) ==
    CASE s = "foo" -> <<"f", "o", "o">>
      [] s = "bar" -> <<"b", "a", "r">>
      [] s = "baz" -> <<"b", "a", "z">>
      [] s = "float" -> <<"f", "l", "o", "a", "t">>
      [] s = "foobar" -> <<"f", "o", "o", "b", "a", "r">>
      [] s = "1.5" -> <<"1", ".", "5">>
      [] s = "7" -> <<"7">>
      [] OTHER -> <<>>

\* str(x)
StrOf(x) ==
    CASE x.k \in {"str", "StrEnum"} -> x.v
      [] x.k = "int" -> ToString(x.v)
      [] x.k = "float" -> ToString(x.v \div 10) \o "." \o ToString(x.v % 10)
      [] x.k = "bool" -> IF x.v THEN "True" ELSE "False"
      [] x.k = "IntEnum" -> "IntEnum." \o ToString(x.v)
      [] x.k = "list" -> "[...]"

\* self._serialize(value)
Serialize(o, value) ==
    CASE SerializerOf(o) = "identity" -> value
      [] SerializerOf(o) = "int" -> PyInt(Truncate(Tenths(value)))
      [] SerializerOf(o) = "str" -> PyStr(StrOf(value))

Failed == [ok |-> FALSE, value |-> PyInt(0)]
Deserialized(value) == [ok |-> TRUE, value |-> value]

\* self._deserialize(value): the type of the default called on the stored value
Deserialize(o, x) ==
    CASE DeserializerOf(o) = "float" ->
              IF IsNumber(x) THEN Deserialized(PyFloat(Tenths(x)))
              ELSE IF x.k = "str" /\ x.v \in NumericStrings
                   THEN Deserialized(PyFloat(ParsedTenths(x.v)))
                   ELSE Failed
      [] DeserializerOf(o) = "int" ->
              IF IsNumber(x) THEN Deserialized(PyInt(Truncate(Tenths(x))))
              ELSE IF x.k = "str" /\ x.v \in NumericStrings /\ ParsedTenths(x.v) % 10 = 0
                   THEN Deserialized(PyInt(ParsedTenths(x.v) \div 10))
                   ELSE Failed
      [] DeserializerOf(o) = "str" -> Deserialized(PyStr(StrOf(x)))
      [] DeserializerOf(o) = "list" ->
              IF x.k = "list" THEN Deserialized(x)
              ELSE IF x.k = "str"
                   THEN Deserialized(PyList([i \in DOMAIN Chars(x.v) |-> PyStr(Chars(x.v)[i])]))
                   ELSE Failed
      [] DeserializerOf(o) = "bool" ->
              Deserialized(PyBool(CASE IsNumber(x) -> Tenths(x) # 0
                                    [] x.k = "list" -> x.v # <<>>
                                    [] OTHER -> x.v # ""))
      [] DeserializerOf(o) = "IntEnum" ->
              IF IsNumber(x) /\ Tenths(x) % 10 = 0 /\ (Tenths(x) \div 10) \in IntEnumValues
              THEN Deserialized(IntEnumMember(Tenths(x) \div 10))
              ELSE Failed
      [] DeserializerOf(o) = "StrEnum" ->
              IF x.k = "str" /\ x.v \in StrEnumValues
              THEN Deserialized(StrEnumMember(x.v))
              ELSE Failed

\* _computeKeyword: from the type of the serialized default
_computeKeyword(o) ==
    LET serializedDefault == Serialize(o, Default(o))
    IN CASE serializedDefault.k = "float" -> "floatValue"
         [] serializedDefault.k \in {"int", "bool", "IntEnum"} -> "intValue"
         [] serializedDefault.k = "str" -> "stringValue"
         [] serializedDefault.k = "list" ->
              CASE serializedDefault.v[1].k = "float" -> "floatArray"
                [] serializedDefault.v[1].k \in {"int", "bool", "IntEnum"} -> "intArray"
                [] serializedDefault.v[1].k = "str" -> "stringArray"

\* _computeVariable: the module of the configuration and the lower-case name
ModulePath == "test_config_enum"
LowerName(o) ==
    CASE o = "FLOAT" -> "float" [] o = "INT" -> "int" [] o = "STRING" -> "string"
      [] o = "FLOAT_ARRAY" -> "float_array" [] o = "INT_ARRAY" -> "int_array"
      [] o = "STRING_ARRAY" -> "string_array" [] o = "BOOL" -> "bool"
      [] o = "INT_ENUM" -> "int_enum" [] o = "STRING_ENUM" -> "string_enum"
Variable(o) == ModulePath \o "_" \o LowerName(o)
OptionVariables == {Variable(o) : o \in Options}

(***************************************************************************)
(* cmds.optionVar.  A stored value has the kind it was written with.       *)
(***************************************************************************)
NoValue == [kind |-> "none", val |-> 0]
ArrayKinds == {"floatArray", "intArray", "stringArray", "emptyArray"}
\* the value as the host keeps it under a keyword
Raw(keyword, x) ==
    CASE keyword = "floatValue" -> Tenths(x)
      [] keyword = "intValue" -> Truncate(Tenths(x))
      [] keyword = "stringValue" -> x.v
ScalarOf(arrayKind) ==
    CASE arrayKind = "floatArray" -> "floatValue"
      [] arrayKind = "intArray" -> "intValue"
      [] arrayKind = "stringArray" -> "stringValue"
\* the Python value of a raw value
Cooked(keyword, raw) ==
    CASE keyword = "floatValue" -> PyFloat(raw)
      [] keyword = "intValue" -> PyInt(raw)
      [] keyword = "stringValue" -> PyStr(raw)

\* cmds.optionVar(exists=variable)
OptionVarExists(store, variable) == store[variable] # NoValue
\* cmds.optionVar(query=variable)
OptionVarQuery(store, variable) ==
    LET stored == store[variable]
    IN CASE stored.kind = "emptyArray" -> PyList(<<>>)
         [] stored.kind \in ArrayKinds \ {"emptyArray"} ->
              PyList([i \in DOMAIN stored.val |-> Cooked(ScalarOf(stored.kind), stored.val[i])])
         [] OTHER -> Cooked(stored.kind, stored.val)
\* cmds.optionVar(floatValue=..), (intValue=..), (stringValue=..)
OptionVarSet(store, keyword, variable, x) ==
    [store EXCEPT ![variable] = [kind |-> keyword, val |-> Raw(keyword, x)]]
\* cmds.optionVar(clearArray=variable)
OptionVarClearArray(store, variable) ==
    [store EXCEPT ![variable] =
        IF @.kind \in ArrayKinds THEN [kind |-> @.kind, val |-> <<>>]
        ELSE [kind |-> "emptyArray", val |-> <<>>]]
\* cmds.optionVar(floatValueAppend=..), (intValueAppend=..), (stringValueAppend=..)
OptionVarAppend(store, arrayKind, variable, x) ==
    [store EXCEPT ![variable] =
        [kind |-> arrayKind,
         val |-> (IF @.kind = arrayKind THEN @.val ELSE <<>>)
                    \o <<Raw(ScalarOf(arrayKind), x)>>]]

RECURSIVE AppendEach(_, _, _, _)
\* the loop of setValue over the elements of an array value
AppendEach(store, arrayKind, variable, elements) ==
    IF elements = <<>> THEN store
    ELSE AppendEach(OptionVarAppend(store, arrayKind, variable, Head(elements)),
                    arrayKind, variable, Tail(elements))

\* a setValue that appends to the array it finds
setValue_appending(store, o, value) ==
    IF _computeKeyword(o) \in ArrayKinds
    THEN AppendEach(store, _computeKeyword(o), Variable(o), value.v)
    ELSE OptionVarSet(store, _computeKeyword(o), Variable(o), Serialize(o, value))

\* _ConfigEnumImpl.setValue
setValue(store, o, value) ==
    LET serializedValue == Serialize(o, value)
    IN IF _computeKeyword(o) \in ArrayKinds
       THEN AppendEach(OptionVarClearArray(store, Variable(o)),
                       _computeKeyword(o), Variable(o), value.v)
       ELSE OptionVarSet(store, _computeKeyword(o), Variable(o), serializedValue)

\* a getValue that stores the default when it finds no variable
getValue_storingDefault(store, o) ==
    IF ~OptionVarExists(store, Variable(o))
    THEN [value |-> Default(o), store |-> setValue(store, o, Default(o)), warning |-> FALSE]
    ELSE LET d == Deserialize(o, OptionVarQuery(store, Variable(o)))
         IN IF d.ok THEN [value |-> d.value, store |-> store, warning |-> FALSE]
            ELSE [value |-> Default(o), store |-> setValue(store, o, Default(o)),
                  warning |-> TRUE]

\* a getValue that leaves a value it cannot deserialize where it is
getValue_keepingInvalid(store, o) ==
    IF ~OptionVarExists(store, Variable(o))
    THEN [value |-> Default(o), store |-> store, warning |-> FALSE]
    ELSE LET d == Deserialize(o, OptionVarQuery(store, Variable(o)))
         IN IF d.ok THEN [value |-> d.value, store |-> store, warning |-> FALSE]
            ELSE [value |-> Default(o), store |-> store, warning |-> TRUE]

\* _ConfigEnumImpl.getValue: the value returned, the store it leaves, and whether
\* cmds.warning was called
getValue(store, o) ==
    IF ~OptionVarExists(store, Variable(o))
    THEN [value |-> Default(o), store |-> store, warning |-> FALSE]
    ELSE LET d == Deserialize(o, OptionVarQuery(store, Variable(o)))
         IN IF d.ok THEN [value |-> d.value, store |-> store, warning |-> FALSE]
            ELSE [value |-> Default(o), store |-> setValue(store, o, Default(o)),
                  warning |-> TRUE]

\* the values of an option's type that are set
ValuesOf(o) ==
    CASE o = "FLOAT" -> {PyFloat(0), PyFloat(12), PyFloat(34), PyFloat(-25)}
      [] o = "INT" -> {PyInt(0), PyInt(3), PyInt(-7)}
      [] o = "STRING" -> {PyStr(""), PyStr("foobar"), PyStr("7")}
      [] o = "FLOAT_ARRAY" ->
            {PyList(<<>>), PyList(<<PyFloat(12), PyFloat(25)>>), Default("FLOAT_ARRAY")}
      [] o = "INT_ARRAY" -> {PyList(<<>>), PyList(<<PyInt(-1), PyInt(0)>>), PyList(<<PyInt(5)>>)}
      [] o = "STRING_ARRAY" ->
            {PyList(<<>>), PyList(<<PyStr("baz")>>), PyList(<<PyStr("foo"), PyStr("bar")>>)}
      [] o = "BOOL" -> {PyBool(TRUE), PyBool(FALSE)}
      [] o = "INT_ENUM" -> {IntEnumMember(i) : i \in IntEnumValues}
      [] o = "STRING_ENUM" -> {StrEnumMember(s) : s \in StrEnumValues}

\* the values the host stores in a variable behind the option's back
HostValues ==
    {[kind |-> "floatValue", val |-> 32], [kind |-> "floatValue", val |-> 10],
     [kind |-> "intValue", val |-> 6], [kind |-> "intValue", val |-> 0],
     [kind |-> "stringValue", val |-> "float"], [kind |-> "stringValue", val |-> "7"],
     [kind |-> "stringValue", val |-> "baz"],
     [kind |-> "stringArray", val |-> <<"foo", "baz">>],
     [kind |-> "intArray", val |-> <<4>>]}

InitOptions ==
    /\ SessionIdle /\ UndoIdle /\ LayeredIdle /\ ReloaderIdle /\ EnumIdle /\ last = "init"
    /\ option \in Options
    /\ optionVars = [variable \in OptionVariables |-> NoValue]
    /\ ret = PyNone /\ cmdsWarning = FALSE /\ setArg = PyNone

\* option.setValue(value)
SetValue ==
    /\ \E value \in ValuesOf(option) :
          /\ optionVars' = setValue(optionVars, option, value)
          /\ setArg' = value
    /\ ret' = PyNone /\ cmdsWarning' = FALSE /\ last' = "setValue"
    /\ UNCHANGED <<option, notOptions>>

\* option.getValue()
GetValue ==
    /\ \E g \in {getValue(optionVars, option)} :
          /\ ret' = g.value /\ optionVars' = g.store /\ cmdsWarning' = g.warning
    /\ setArg' = PyNone /\ last' = "getValue"
    /\ UNCHANGED <<option, notOptions>>

\* the host stores a value in the variable of the option
HostStore ==
    /\ \E stored \in HostValues :
          /\ stored # optionVars[Variable(option)]
          /\ optionVars' = [optionVars EXCEPT ![Variable(option)] = stored]
    /\ ret' = PyNone /\ cmdsWarning' = FALSE /\ setArg' = PyNone /\ last' = "optionVar"
    /\ UNCHANGED <<option, notOptions>>

\* cmds.optionVar(remove=variable)
HostRemove ==
    /\ OptionVarExists(optionVars, Variable(option))
    /\ optionVars' = [optionVars EXCEPT ![Variable(option)] = NoValue]
    /\ ret' = PyNone /\ cmdsWarning' = FALSE /\ setArg' = PyNone /\ last' = "remove"
    /\ UNCHANGED <<option, notOptions>>

NextOptions == SetValue \/ GetValue \/ HostStore \/ HostRemove

SpecOptions == InitOptions /\ [][NextOptions]_vars

(***************************************************************************)
(* agnostic.layered_config.  LayeredConfig(package) caches the             *)
(* configuration directories that exist, from the highest priority to the  *)
(* lowest: the user directory, the .config directory of the working        *)
(* directory and of each of its ancestors, the config directory of the     *)
(* package.  get_config(name) reads <name>.json in each of them.  The      *)
(* working directory is workspace/projectName; a run draws which           *)
(* directories exist and what their test_config.json holds, and no         *)
(* directory holds empty_config.json.                                      *)
(*                                                                         *)
(* A dictionary is a function; a value is a dictionary too, a string s     *)
(* being the dictionary with the one key "=".  Every value in a file names *)
(* the directory of the file.                                              *)
(***************************************************************************)
\* the candidates for the user directory, in the order they are tried
UserCandidates == <<"APPDATA", "XDG_CONFIG_HOME", "home">>
\* the working directory and its ancestors, nearest first
WorkDirs == <<"projectName", "workspace">>
\* the layers, from the highest priority to the lowest
Layers == <<"user">> \o WorkDirs \o <<"package">>
ConfigNames == {"test_config", "empty_config"}

\* the keys a file may define: a top-level string and two keys of a nested dictionary
Paths == {<<"x">>, <<"layer", "p">>, <<"layer", "q">>}
\* the sets of keys of the files drawn
FilePaths ==
    {{}, {<<"x">>}, {<<"layer", "p">>}, {<<"layer", "q">>},
     {<<"x">>, <<"layer", "p">>, <<"layer", "q">>}}
NoDir == [dir |-> FALSE, file |-> FALSE, paths |-> {}]
NoFile == [dir |-> TRUE, file |-> FALSE, paths |-> {}]
LayerStates == {NoDir, NoFile} \cup {[dir |-> TRUE, file |-> TRUE, paths |-> P] : P \in FilePaths}

\* a string as a value
Leaf(s) == [k \in {"="} |-> s]
\* json.load of the file of a layer that defines the keys P
FileDict(layer, P) ==
    [key \in {p[1] : p \in P} |->
        IF key = "x" THEN Leaf(layer)
        ELSE [nested \in {p[2] : p \in {q \in P : q[1] = key}} |-> layer]]

\* the layer a cached directory belongs to
LayerOf(dir) == IF dir \in Range(UserCandidates) THEN "user" ELSE dir

\* _find_user_config_dir: the first candidate that is a directory
_find_user_config_dir(existing) ==
    SelectSeq(UserCandidates, LAMBDA c : c \in existing)

\* _cache_config_dirs
_cache_config_dirs(existing, fs) ==
    LET user_config_dir == _find_user_config_dir(existing)
    IN (IF user_config_dir # <<>> THEN <<user_config_dir[1]>> ELSE <<>>)
       \o SelectSeq(WorkDirs, LAMBDA d : fs[d].dir)
       \o (IF fs["package"].dir THEN <<"package">> ELSE <<>>)

\* reversed()
Reverse(s) == [i \in 1..Len(s) |-> s[Len(s) + 1 - i]]

\* dict.update
Update(d, other) == [key \in DOMAIN d \cup DOMAIN other |->
                        IF key \in DOMAIN other THEN other[key] ELSE d[key]]

RECURSIVE LoadEach(_, _, _, _)
\* the loop of get_config over the directories in the order given
LoadEach(sum, dirs, fs, name) ==
    IF dirs = <<>> THEN sum
    ELSE LET layer == LayerOf(Head(dirs))
             is_file == name = "test_config" /\ fs[layer].file
         IN LoadEach(IF is_file THEN Update(sum, FileDict(layer, fs[layer].paths))
                     ELSE sum,
                     Tail(dirs), fs, name)

\* a get_config that reads the directories from the highest priority to the lowest
get_config_highestFirst(dirs, fs, name) == LoadEach(<<>>, dirs, fs, name)

\* get_config: the directories are read from the lowest priority to the highest
get_config(dirs, fs, name) == LoadEach(<<>>, Reverse(dirs), fs, name)

InitLayered ==
    /\ SessionIdle /\ UndoIdle /\ OptionsIdle /\ ReloaderIdle /\ EnumIdle /\ last = "init"
    /\ userDirs \in SUBSET Range(UserCandidates)
    /\ files \in [Range(Layers) -> LayerStates]
    /\ files["user"].dir = (userDirs # {})
    /\ _config_dirs = <<>> /\ config_sum = <<>>

\* LayeredConfig(package)
NewLayeredConfig ==
    /\ last = "init"
    /\ _config_dirs' = _cache_config_dirs(userDirs, files)
    /\ last' = "LayeredConfig"
    /\ UNCHANGED <<userDirs, files, config_sum, notLayered>>

\* get_config(name)
GetConfig ==
    /\ last # "init"
    /\ \E name \in ConfigNames :
          /\ config_sum' = get_config(_config_dirs, files, name)
          /\ last' = name
    /\ UNCHANGED <<userDirs, files, _config_dirs, notLayered>>

NextLayered == NewLayeredConfig \/ GetConfig

SpecLayered == InitLayered /\ [][NextLayered]_vars

(***************************************************************************)
(* cgtools.agnostic.ui.module_reloader.  The widget lists the modules of   *)
(* sys.modules through a sorting and filtering proxy model; the view's     *)
(* selection model works on the rows of the proxy, and a second selection  *)
(* model on the source rows (the full selection) mirrors it.               *)
(*                                                                         *)
(* The host toolkit is modelled by what it does: the proxy keeps the rows  *)
(* it accepted at the last time the filter was evaluated and evaluates it  *)
(* again only when the filter is invalidated (for every row) or when a row *)
(* is inserted (for that row); a row that leaves the proxy leaves the      *)
(* view's selection; a selection model tells its listeners what was        *)
(* selected and deselected.  A module name is the sequence of its dotted   *)
(* parts, and the text of the filter line is one too: with the wildcard    *)
(* the widget appends, it matches the names it is a prefix of.             *)
(***************************************************************************)
\* the modules, in the order the sorted proxy model lists them
SortedNames == <<<<"external">>, <<"internal">>, <<"internal", "foo">>, <<"unpackaged">>>>
ModuleNames == Range(SortedNames)
\* the module that may be imported and unloaded during a run
Unloadable == {<<"internal", "foo">>}
\* the texts typed into the filter line
FilterTexts == {<<>>, <<"internal">>, <<"internal", "foo">>, <<"external">>}

\* _addModule: the module is marked external unless a local Rez package holds it
IsExternal(moduleName) == moduleName[1] # "internal"

\* QRegularExpression.wildcardToRegularExpression(pattern + "*") matches the name
Matches(text, moduleName) ==
    /\ Len(text) <= Len(moduleName)
    /\ SubSeq(moduleName, 1, Len(text)) = text

\* ModuleProxyModel.filterAcceptsRow
filterAcceptsRow(w, moduleName) ==
    IF w._hideUnselected /\ moduleName \notin w.fullSelection THEN FALSE
    ELSE IF IsExternal(moduleName) /\ ~w._showExternal THEN FALSE
    ELSE Matches(w.pattern, moduleName)

\* invalidateFilter: every source row is filtered again; the rows that leave
\* the proxy leave the view's selection
invalidateFilter(w) ==
    LET accepted == {m \in w._modules : filterAcceptsRow(w, m)}
    IN [w EXCEPT !.displayed = accepted,
                 !.viewSelection = w.viewSelection \cap accepted]

\* a selectionPreserved that does not select again
selectionPreserved_noReselect(w) == w

\* ReverseProxySelectionModel.selectionPreserved, after the body: the full
\* selection, mapped from the source, replaces the view's selection, all of it
\* with the mirroring blocked
selectionPreserved(w) ==
    [w EXCEPT !.viewSelection = w.fullSelection \cap w.displayed]

\* ReverseProxySelectionModel.mirrorSelectionChange, not blocked
mirrorSelectionChange(w, selected, deselected) ==
    [w EXCEPT !.fullSelection = (w.fullSelection \cup selected) \ deselected]

\* the view's selection becomes the rows given; the change is mirrored
SetViewSelection(w, rows) ==
    mirrorSelectionChange([w EXCEPT !.viewSelection = rows],
                          rows \ w.viewSelection, w.viewSelection \ rows)

\* QItemSelectionModel.select(index, command) on the view's selection model
SelectionCommands == {"Select", "Deselect", "Toggle"}
select(w, moduleName, command) ==
    LET on == \/ command = "Select"
              \/ command = "Toggle" /\ moduleName \notin w.viewSelection
    IN SetViewSelection(w, IF on THEN w.viewSelection \cup {moduleName}
                           ELSE w.viewSelection \ {moduleName})

\* a Select All that selects every source row in the full selection
selectAll_unfiltered(w) ==
    [SetViewSelection(w, w.displayed) EXCEPT !.fullSelection = w._modules]

\* moduleList.selectAll, the Select All entry of the context menu
selectAll(w) == SetViewSelection(w, w.displayed)

\* moduleList.clearSelection, the Deselect All entry of the context menu
clearSelection(w) == SetViewSelection(w, {})

\* ModuleReloaderWidget.filterPatternChanged
filterPatternChanged(w, text) ==
    selectionPreserved(invalidateFilter([w EXCEPT !.pattern = text]))

\* ModuleReloaderWidget.showExternalPackages
showExternalPackages(w, showState) ==
    selectionPreserved(invalidateFilter([w EXCEPT !._showExternal = showState]))

\* ModuleReloaderWidget.toggleUnselectedVisibility
toggleUnselectedVisibility(w) ==
    selectionPreserved(invalidateFilter([w EXCEPT !._hideUnselected = ~w._hideUnselected]))

\* a reload that goes through the full selection
reload_fullSelection(w) ==
    [w EXCEPT !.reloaded = SelectSeq(SortedNames, LAMBDA m : m \in w.fullSelection)]

\* ModuleReloaderWidget.reload: importlib.reload for each of moduleList.selectedIndexes()
reload(w) ==
    [w EXCEPT !.reloaded = SelectSeq(SortedNames, LAMBDA m : m \in w.viewSelection)]

\* ModuleReloaderWidget.refresh
refresh(w, modules) ==
    LET toAdd == modules \ w._modules
        toRemove == w._modules \ modules
    IN [w EXCEPT !._modules = modules,
                 !.displayed = (w.displayed \ toRemove)
                               \cup {m \in toAdd : filterAcceptsRow(w, m)},
                 !.fullSelection = w.fullSelection \ toRemove,
                 !.viewSelection = w.viewSelection \ toRemove]

\* ModuleReloaderWidget(): the state after __init__
NewWidget(modules, checkState) ==
    LET w0 == [_modules |-> {}, pattern |-> <<>>, _showExternal |-> FALSE,
               _hideUnselected |-> FALSE, displayed |-> {},
               fullSelection |-> {}, viewSelection |-> {}, reloaded |-> <<>>]
    IN refresh(showExternalPackages(filterPatternChanged(w0, <<>>), checkState), modules)

InitReloader ==
    /\ SessionIdle /\ UndoIdle /\ OptionsIdle /\ LayeredIdle /\ EnumIdle /\ last = "init"
    /\ sysModules \in {ModuleNames, ModuleNames \ Unloadable}
    /\ \E checkState \in BOOLEAN : widget = NewWidget(sysModules, checkState)

\* a handler of the widget ran
StepReloader(w, label) ==
    /\ widget' = w
    /\ last' = label
    /\ UNCHANGED <<sysModules, notReloader>>

\* the user edits the filter line
FilterPatternChanged ==
    \E text \in FilterTexts \ {widget.pattern} :
        StepReloader(filterPatternChanged(widget, text), "filterPatternChanged")

\* the user ticks the show-external check box on or off
ShowExternalPackages ==
    StepReloader(showExternalPackages(widget, ~widget._showExternal), "showExternalPackages")

\* the user picks Hide Unselected or Show Unselected in the context menu
ToggleUnselectedVisibility ==
    StepReloader(toggleUnselectedVisibility(widget), "toggleUnselectedVisibility")

\* the user selects or deselects one displayed module
SelectModule ==
    \E moduleName \in widget.displayed, command \in SelectionCommands :
        StepReloader(select(widget, moduleName, command), "select")

\* the user picks Select All in the context menu
SelectAll == StepReloader(selectAll(widget), "selectAll")

\* the user picks Deselect All in the context menu
ClearSelection == StepReloader(clearSelection(widget), "clearSelection")

\* the user presses the reload button
Reload == StepReloader(reload(widget), "reload")

\* a module is imported or unloaded
Import ==
    /\ \E moduleName \in Unloadable :
          sysModules' = IF moduleName \in sysModules THEN sysModules \ {moduleName}
                        ELSE sysModules \cup {moduleName}
    /\ last' = "import"
    /\ UNCHANGED <<widget, notReloader>>

\* the user presses the refresh button
Refresh ==
    /\ widget' = refresh(widget, sysModules)
    /\ last' = "refresh"
    /\ UNCHANGED <<sysModules, notReloader>>

NextReloader ==
    \/ FilterPatternChanged \/ ShowExternalPackages \/ ToggleUnselectedVisibility
    \/ SelectModule \/ SelectAll \/ ClearSelection \/ Reload \/ Import \/ Refresh

SpecReloader == InitReloader /\ [][NextReloader]_vars

(***************************************************************************)
(* cgtools.maya.config_enum, the variable name of a member.  A run draws   *)
(* the module that defines one enum class and makes its members one by     *)
(* one; each member computes its variable name when it is made.            *)
(***************************************************************************)
\* the parts a module path is made of
ModuleParts == {"cgtools", "maya", "_vendor", "fill_selection"}
\* str.startswith("_")
StartsWithUnderscore(part) == part \in {"_vendor"}
\* the name of the enum class
ClassName == "Config"
\* the member names of the class; two of them differ in case only
MemberNames == {"EXIT_ON", "Exit_On", "OUTPUT"}
\* str.lower
Lower(name) ==
    CASE name = "EXIT_ON" -> "exit_on" [] name = "Exit_On" -> "exit_on"
      [] name = "OUTPUT" -> "output"
\* the module paths drawn: up to three parts
ModulePaths == UNION {[1..n -> ModuleParts] : n \in 0..3}

\* a _computeVariable that joins the first two parts of a longer path
_computeVariable_firstTwo(module, name) ==
    LET modulePathParts == SelectSeq(module, LAMBDA part : ~StartsWithUnderscore(part))
        modulePath == IF Len(modulePathParts) < 1 THEN ClassName
                      ELSE IF Len(modulePathParts) = 1 THEN modulePathParts[1]
                      ELSE modulePathParts[1] \o "_" \o modulePathParts[2]
    IN modulePath \o "_" \o Lower(name)

\* _ConfigEnumImpl._computeVariable
_computeVariable(module, name) ==
    LET modulePathParts == SelectSeq(module, LAMBDA part : ~StartsWithUnderscore(part))
        modulePath == IF Len(modulePathParts) < 1 THEN ClassName
                      ELSE IF Len(modulePathParts) = 1 THEN modulePathParts[1]
                      ELSE modulePathParts[1] \o "_" \o modulePathParts[Len(modulePathParts)]
    IN modulePath \o "_" \o Lower(name)

InitEnum ==
    /\ SessionIdle /\ UndoIdle /\ OptionsIdle /\ LayeredIdle /\ ReloaderIdle /\ last = "init"
    /\ enumModule \in ModulePaths
    /\ _variable = <<>>

\* _ConfigEnumImpl.__init__ of one more member of the class
NewMember ==
    /\ \E name \in MemberNames \ DOMAIN _variable :
          _variable' = [n \in DOMAIN _variable \cup {name} |->
                          IF n = name THEN _computeVariable(enumModule, name)
                          ELSE _variable[n]]
    /\ last' = "__init__"
    /\ UNCHANGED <<enumModule, notEnum>>

NextEnum == NewMember

SpecEnum == InitEnum /\ [][NextEnum]_vars






(***************************************************************************)
(* Properties                                                              *)
(***************************************************************************)
JobIds == {j.id : j \in jobs}
CallbackIds == {cb.id : cb \in cbs}

\* C1: at the host event loop, history and previousUVSets are as long as shapeToEdges
\* and their i-th entries are those of the i-th key of shapeToEdges: the history the
\* shape had and the UV set that was current on it before the start.
C1_Aligned ==
    /\ Len(sd.history) = Len(sd.shapeToEdges)
    /\ Len(sd.previousUVSets) = Len(sd.shapeToEdges)
    /\ \A i \in DOMAIN sd.shapeToEdges :
          /\ sd.history[i] = pre.hist[sd.shapeToEdges[i].shape]
          /\ sd.previousUVSets[i] = pre.uv[sd.shapeToEdges[i].shape]

\* C2: every live job and callback is recorded in the session data, and clear never
\* released a handle twice or one that was not live.
C2_ReleasedOnce ==
    /\ ~dbl
    /\ JobIds \subseteq Range(sd.jobNumbers)
    /\ CallbackIds \subseteq Range(sd.callbackIDs)

\* C3: for every event and every scene message at most one subscription is live.
C3_NoDoubleSubscription ==
    /\ \A j1, j2 \in jobs : j1.event = j2.event => j1 = j2
    /\ \A c1, c2 \in cbs : c1.message = c2.message => c1 = c2

\* C4: _cleanUp never deletes a node that was in a shape's construction history
\* before the session started.
C4_OnlyNewNodesDeleted == gone = {}

\* C5: from Idle, a start followed by finalize and its deferred clean up, with no
\* selection change by the user in between, leaves every shape with the UV set that
\* was current before the start and with the construction history it had then.
C5_RoundTrip ==
    scn = 3 => /\ gone = {}
               /\ \A s \in Shapes : uv[s] = pre.uv[s] /\ hist[s] = pre.hist[s]

\* C6: once finalize ran on an active session and every deferred task has run, every
\* field of the session data is empty and no subscription is live.
C6_IdleAfterFinalize ==
    (fin /\ dq = <<>>) => (sd = EmptySessionData /\ jobs = {} /\ cbs = {})

\* C7: a new scene while a session is active empties the session data and releases
\* every subscription.
C7_NewSceneClears ==
    [][(last' = "newScene" /\ Active(sd))
          => (sd' = EmptySessionData /\ jobs' = {} /\ cbs' = {})]_vars

\* C8: fillSelection() on an active session with the exit condition "reinvocation"
\* does what finalize() does and nothing else: shapeToEdges, history, previousUVSets
\* and the recorded handles are not rewritten, no UV set is prepared, no node is
\* created, no subscription is registered, and the clean up and the clear are deferred.
C8_ReinvocationFinalizes ==
    [][last' = "reinvoked"
          => /\ sd' = sd
             /\ jobs' = jobs /\ cbs' = cbs
             /\ uv' = uv /\ hist' = hist
             /\ dq' = dq \o <<"_cleanUp", "clear">>]_vars

C8_Reinvoked ==
    /\ last = "reinvoked" /\ Active(sd) /\ sd.shapeToEdges # <<>>
    /\ dq = <<"_cleanUp", "clear">>

\* C9: fillSelection() from Idle on a selection without a polygon mesh warns and
\* starts no session: the session data stays empty, no subscription is registered,
\* no UV set is made current and no node is created.
C9_NoMeshWarns ==
    [][(last' = "warned" /\ ~Active(sd))
          => /\ warned'
             /\ sd' = EmptySessionData
             /\ jobs' = jobs /\ cbs' = cbs
             /\ uv' = uv /\ hist' = hist
             /\ dq' = dq /\ pend' = pend]_vars

C9_Warned ==
    /\ last = "warned" /\ warned /\ sd = EmptySessionData
    /\ sel # <<>> /\ _getSelectedShapes(sel) = {}
    /\ jobs = {} /\ cbs = {}

\* C10: _cleanUp, run by the before-save callback or deferred by finalize, writes of
\* the session data only the selection field, and leaves every subscription live.
C10_CleanUpKeepsSession ==
    [][(\/ last' = "_cleanUp"
        \/ last' = "beforeSave" /\ \E cb \in cbs : cb.message = "kBeforeSave")
          => /\ sd' = [sd EXCEPT !.selection = sel]
             /\ jobs' = jobs /\ cbs' = cbs]_vars

C10_CleanedUp ==
    /\ last = "_cleanUp" /\ dq = <<"clear">>
    /\ sd.shapeToEdges # <<>> /\ sd.history # <<>> /\ sd.selection = sel /\ sel # <<>>
    /\ sd.jobNumbers # <<>> /\ Range(sd.jobNumbers) \subseteq JobIds
    /\ sd.callbackIDs # <<>> /\ Range(sd.callbackIDs) \subseteq CallbackIds

\* C11: a save cycle leaves shapeToEdges as it is (keys, order and edge lists), and
\* the restore after the save cuts each shape of shapeToEdges along its stored edges
\* on the scratch UV set, whatever the selection is by then.
C11_RestoreKeepsPartition ==
    [][(last' \in {"beforeSave", "afterSave"})
          => /\ sd'.shapeToEdges = sd.shapeToEdges
             /\ (last' = "afterSave" /\ \E cb \in cbs : cb.message = "kAfterSave")
                   => \A i \in DOMAIN sd.shapeToEdges :
                         LET e == sd.shapeToEdges[i]
                         IN /\ uv'[e.shape] = WorkingUVSet
                            /\ {e.edges[k].id : k \in DOMAIN e.edges} \subseteq seams'[e.shape]
                            /\ hist[e.shape] \subseteq hist'[e.shape]
                            /\ hist'[e.shape] # hist[e.shape]]_vars

C11_Restored ==
    /\ last = "afterSave" /\ sd.shapeToEdges # <<>> /\ sd.callbackIDs # <<>>
    /\ Range(sd.callbackIDs) \subseteq CallbackIds
    /\ _getEdgesFromSelection(sel, DefaultConfig) # sd.shapeToEdges

\* C12: after a successful start the live subscriptions are exactly those of the
\* event table for the configuration of the start: one ToolChanged job, one
\* SelectionChanged job iff the exit condition is "selection", one SelectModeChanged
\* and one SelectTypeChanged job iff the mode/type flag is set, and one callback for
\* each of the three scene messages.
C12_SubscriptionTable ==
    last = "started" =>
        /\ \E c \in StartConfigs :
              /\ c.exitCondition # "enter_key"
              /\ {j.event : j \in jobs} =
                    {"ToolChanged"}
                    \cup (IF c.exitCondition = "selection" THEN {"SelectionChanged"} ELSE {})
                    \cup (IF c.exitOnSelectModeTypeChange
                          THEN {"SelectModeChanged", "SelectTypeChanged"} ELSE {})
        /\ \A j1, j2 \in jobs : j1.event = j2.event => j1 = j2
        /\ {cb.message : cb \in cbs} = {"kBeforeSave", "kAfterSave", "kAfterNew"}
        /\ Cardinality(cbs) = 3

\* the component select type finalize() chooses for an output type
OutputSelectType(t) ==
    CASE t = "edge" -> "polymeshEdge"
      [] t = "face" -> "polymeshFace"
      [] t = "vertex" -> "polymeshVtxFace"
\* the component type of the identifiers an output type converts to
OutputItemType(t) ==
    CASE t = "edge" -> "e"
      [] t = "face" -> "f"
      [] t = "vertex" -> "vtx"

\* C13: when finalize() returns, the selection is converted and set (a selection
\* that converts to nothing is left as it is) and the select type is changed, while its clean up and its clear are still waiting, the clean up
\* first: the deferred queue is always a sequence of clean up, clear pairs, of which
\* the first clean up may have run.
C13_FinalizeOrder ==
    /\ \A i \in DOMAIN dq :
          dq[i] = (IF (Len(dq) - i) % 2 = 0 THEN "clear" ELSE "_cleanUp")
    /\ last \in {"finalize", "reinvoked"} =>
          /\ Len(dq) >= 2
          /\ \E t \in OutputTypes :
                /\ stype = OutputSelectType(t)
                /\ \/ \A i \in DOMAIN sel : sel[i].type = OutputItemType(t)
                   \/ ConvertTo(sel, OutputItemType(t)) = <<>>

C13_Finalized ==
    /\ last = "finalize" /\ Active(sd) /\ sd.shapeToEdges # <<>>
    /\ dq = <<"_cleanUp", "clear">> /\ sel # <<>>

\* C14 as claimed: after finalize() the component select type is the one that was in
\* effect before the start (in a run of one session: the type the scene starts with).
C14_PriorTypeRestored ==
    last = "finalize" => stype = InitSelectType

\* C14, amended: finalize() does not restore the prior select type; it sets the
\* component select type it chooses for the configured output type (polymeshEdge for
\* edge, polymeshFace for face, polymeshVtxFace for vertex), and the selection it sets
\* consists of components of the output type.
C14_OutputTypeSelected ==
    last = "finalize" =>
        /\ stype = OutputSelectType(config.outputType)
        /\ \A i \in DOMAIN sel : sel[i].type = OutputItemType(config.outputType)

C14_Finalized ==
    /\ last = "finalize" /\ Active(sd) /\ sel # <<>>
    /\ config.outputType = "edge" /\ stype = "polymeshEdge" /\ stype # InitSelectType

\* C15: fillSelection() from Idle with the exit condition "enter_key" starts no
\* session: the session data stays empty, no subscription is registered, no UV set
\* is created, made current or cut.
C15_EnterKeyStartsNothing ==
    [][(last' = "startRaised" /\ ~Active(sd))
          => /\ sd' = EmptySessionData
             /\ jobs' = jobs /\ cbs' = cbs
             /\ uv' = uv /\ hist' = hist /\ prep' = prep]_vars

\* the selection consists of raw edges only
RawEdgesOnly == sel # <<>> /\ \A i \in DOMAIN sel : sel[i].type = "e"
\* the positions of the selection whose edge belongs to a shape
PositionsOn(shape) == {i \in DOMAIN sel : ShapeOf(sel[i].obj) = shape}
\* the ids of a list of identifiers
IdsOf(items) == {items[i].id : i \in DOMAIN items}

SelectedSides(o, e) ==
    Cardinality({f \in IdsOn(sel, o, "f") : EdgeVerts(e) \subseteq FaceVerts(f)})
\* the edges the face conversion yields on an object under a mode
FaceEdgesUnder(o, mode) ==
    IdsOn(_getEdgesFromSelectedFaces(sel, [config EXCEPT !.convertFacesTo = mode]), o, "e")

\* C17: the edges derived from the selected faces of an object are, with the mode
\* perimeter, the edges that border exactly one selected face, with contained the
\* edges that border two selected faces, with all the edges that border at least one,
\* and the result of all contains both other results.
C17_FaceModes ==
    (last = "edges" /\ FilterExpand(sel, "f") # <<>>) =>
        /\ \A i \in DOMAIN out.faces : out.faces[i].type = "e"
        /\ \A i, j \in DOMAIN out.faces : out.faces[i] = out.faces[j] => i = j
        /\ \A o \in Shapes \cup Transforms :
              /\ IdsOn(out.faces, o, "e") =
                    {e \in Edges :
                        CASE config.convertFacesTo = "perimeter" -> SelectedSides(o, e) = 1
                          [] config.convertFacesTo = "contained" -> SelectedSides(o, e) = 2
                          [] config.convertFacesTo = "all" -> SelectedSides(o, e) >= 1}
              /\ FaceEdgesUnder(o, "perimeter") \cup FaceEdgesUnder(o, "contained")
                    \subseteq FaceEdgesUnder(o, "all")

C17_FacesConverted ==
    /\ last = "edges"
    /\ sel = <<Item("A", "f", 1), Item("A", "f", 2), Item("A", "f", 3)>>
    /\ config.convertFacesTo = "perimeter"
    /\ IdsOf(out.faces) = {1, 2, 4, 6, 7}

\* the selection is two faces of one object that share exactly one edge
TwoAdjacentFaces ==
    /\ Len(sel) = 2 /\ sel[1].type = "f" /\ sel[2].type = "f"
    /\ sel[1].obj = sel[2].obj /\ sel[1].id # sel[2].id
    /\ Cardinality(EdgeFaces_shared(sel[1].id, sel[2].id)) = 1

\* C18 as claimed: for two adjacent faces that share one edge, with the face mode
\* contained, the derived edges exclude the shared edge and include the outer
\* perimeter edges of the two faces.
C18_SharedEdgeExcluded ==
    (last = "edges" /\ TwoAdjacentFaces /\ config.convertFacesTo = "contained") =>
        /\ EdgeFaces_shared(sel[1].id, sel[2].id) \cap IdsOf(out.faces) = {}
        /\ {e \in Edges : SelectedSides(sel[1].obj, e) = 1} \subseteq IdsOf(out.faces)

\* C18, amended: for two adjacent faces that share one edge, with the face mode
\* contained, the derived edges are exactly the shared edge, and none of the outer
\* perimeter edges of the two faces.
C18_SharedEdgeOnly ==
    (last = "edges" /\ TwoAdjacentFaces /\ config.convertFacesTo = "contained") =>
        /\ IdsOf(out.faces) = EdgeFaces_shared(sel[1].id, sel[2].id)
        /\ {e \in Edges : SelectedSides(sel[1].obj, e) = 1} \cap IdsOf(out.faces) = {}

C18_TwoFacesContained ==
    /\ last = "edges" /\ TwoAdjacentFaces /\ config.convertFacesTo = "contained"
    /\ sel = <<Item("A", "f", 1), Item("A", "f", 2)>>
    /\ out.faces = <<Item("A", "e", 3)>>

\* C19: after _prepareUVSets, with useExistingSeams the scratch UV set of every
\* prepared shape has exactly the seams of the UV set that was current before, and
\* without it the scratch UV set has no seams.
C19_SeamsCopied ==
    last = "prepared" =>
        \A i \in DOMAIN out.all :
            LET shape == out.all[i].shape
            IN /\ uv[shape] = WorkingUVSet
               /\ seams[shape] = (IF config.useExistingSeams /\ pre.uv[shape] # WorkingUVSet
                                  THEN OrigSeams[shape] ELSE {})

\* C20: once finalize() ran on an active session and its deferred clean up ran, with
\* any save cycles in between, no shape has the scratch UV set.
C20_ScratchRemoved ==
    (fin /\ last = "_cleanUp") => \A s \in Shapes : ~HasScratch(W, s)

\* the wrapped calls in progress that opened a chunk, among the first n
OpenedBelow(n) == Cardinality({i \in 1..n : frames[i].undoEnabled})

\* C21: a wrapped call opens an undo chunk before its body iff undo is enabled when
\* it is entered; when the call is left, by return or by an exception, the open chunks
\* are those that were open before it, and the chunk it opened is closed by exactly
\* one closeChunk; the open chunks are always those of the calls in progress that
\* opened one, also when calls are nested.
C21_ChunksBalanced ==
    /\ [](/\ Len(openChunks) = OpenedBelow(Len(frames))
          /\ nOpened - nClosed = Len(openChunks)
          /\ \A i \in DOMAIN frames : frames[i].before = OpenedBelow(i - 1)
          /\ (frames = <<>> => openChunks = <<>> /\ nOpened = nClosed))
    /\ [][/\ Len(frames') > Len(frames) =>
                /\ frames'[Len(frames')].undoEnabled = undoState
                /\ openChunks' = (IF undoState
                                  THEN Append(openChunks, frames'[Len(frames')].name)
                                  ELSE openChunks)
          /\ Len(frames') < Len(frames) =>
                /\ Len(openChunks') = frames[Len(frames)].before
                /\ openChunks' = SubSeq(openChunks, 1, Len(openChunks'))
                /\ nClosed' = nClosed + (IF frames[Len(frames)].undoEnabled THEN 1 ELSE 0)
                /\ nOpened' = nOpened]_vars

C21_NestedRaiseClosed ==
    /\ last = "propagate" /\ raising /\ frames = <<>>
    /\ undoState /\ openChunks = <<>> /\ nOpened >= 2 /\ nClosed = nOpened

\* Python's ==, on the values of the options
PyEq(a, b) ==
    IF IsNumber(a) /\ IsNumber(b) THEN Tenths(a) = Tenths(b)
    ELSE IF a.k = "list" /\ b.k = "list"
         THEN /\ Len(a.v) = Len(b.v)
              /\ \A i \in DOMAIN a.v :
                    IF IsNumber(a.v[i]) /\ IsNumber(b.v[i])
                    THEN Tenths(a.v[i]) = Tenths(b.v[i])
                    ELSE a.v[i].k = b.v[i].k /\ a.v[i].v = b.v[i].v
         ELSE a.k = b.k /\ a.v = b.v

\* C22: getValue() on an option whose variable is not stored returns the default and
\* leaves the option variables as they are: the variable is not created, no warning
\* is emitted.
C22_DefaultWhenNotStored ==
    [][(last' = "getValue" /\ optionVars[Variable(option)] = NoValue)
          => /\ ret' = Default(option)
             /\ optionVars' = optionVars
             /\ ~cmdsWarning']_vars

C22_GotDefault ==
    /\ last = "getValue" /\ ret = Default(option) /\ ~cmdsWarning
    /\ \A variable \in OptionVariables : optionVars[variable] = NoValue

\* the stored value of the option exists and its deserializer raises on it
Undeserializable ==
    /\ optionVars[Variable(option)] # NoValue
    /\ ~Deserialize(option, OptionVarQuery(optionVars, Variable(option))).ok

\* C23: getValue() on an option whose stored value cannot be deserialized returns the
\* default, emits a warning and leaves the serialized default in the variable; a
\* getValue() right after it returns a value equal to the default, emits no warning
\* and leaves the variable as it is.
C23_InvalidStoreReset ==
    [][(last' = "getValue" /\ Undeserializable)
          => /\ ret' = Default(option) /\ cmdsWarning'
             /\ optionVars'[Variable(option)] # NoValue
             /\ PyEq(OptionVarQuery(optionVars', Variable(option)),
                     Serialize(option, Default(option)))
             /\ \A variable \in OptionVariables \ {Variable(option)} :
                   optionVars'[variable] = optionVars[variable]
             /\ LET again == getValue(optionVars', option)
                IN /\ PyEq(again.value, Default(option)) /\ ~again.warning
                   /\ again.store = optionVars']_vars

C23_WarnedOnce ==
    /\ last = "getValue" /\ cmdsWarning /\ ret = Default(option)
    /\ option = "FLOAT_ARRAY"
    /\ optionVars[Variable(option)] = [kind |-> "floatArray", val |-> <<5, 10, 25>>]

\* C24: setValue(v) leaves serialize(v) in the variable of the option, of the kind of
\* the option's keyword, and a getValue() right after it returns a value equal to v,
\* without a warning.
C24_SetThenGet ==
    /\ [](last = "setValue" =>
            /\ optionVars[Variable(option)] # NoValue
            /\ PyEq(OptionVarQuery(optionVars, Variable(option)), Serialize(option, setArg))
            /\ (setArg.k = "list" /\ setArg.v = <<>>)
                  \/ optionVars[Variable(option)].kind = _computeKeyword(option))
    /\ [][(last = "setValue" /\ last' = "getValue")
             => (PyEq(ret', setArg) /\ ret'.k = setArg.k /\ ~cmdsWarning')]_vars

C24_ArrayReplaced ==
    /\ last = "getValue" /\ option = "FLOAT_ARRAY" /\ ~cmdsWarning
    /\ ret = PyList(<<PyFloat(12), PyFloat(25)>>)

\* the layers whose directory holds <name>.json, from the highest priority to the lowest
LayersWithFile(name) ==
    SelectSeq(Layers, LAMBDA l : name = "test_config" /\ files[l].dir /\ files[l].file)

\* the top-level keys the file of a layer defines
TopKeys(l) == {p[1] : p \in files[l].paths}

\* C25: get_config(name) returns a dictionary whose keys are the top-level keys
\* that <name>.json defines in some configuration directory, each with the value
\* it has in the first directory that defines it in the order user directory,
\* working directory, its ancestors from the nearest, package directory; the
\* dictionary is empty when no directory has the file.
C25_HighestLayerWins ==
    last \in ConfigNames =>
        LET with == LayersWithFile(last)
            defining(key) == SelectSeq(with, LAMBDA l : key \in TopKeys(l))
        IN /\ DOMAIN config_sum = UNION {TopKeys(l) : l \in Range(with)}
           /\ \A key \in DOMAIN config_sum :
                 config_sum[key] = FileDict(defining(key)[1], files[defining(key)[1]].paths)[key]
           /\ with = <<>> => config_sum = <<>>

\* get_config("test_config") ran with the file in all four layers, the key "x"
\* defined by the working directory and the package only
C25_FourLayers ==
    /\ last = "test_config"
    /\ Len(LayersWithFile("test_config")) = 4
    /\ "x" \notin TopKeys("user") /\ "x" \in TopKeys("projectName")
    /\ "x" \in TopKeys("package")
    /\ config_sum["x"] = Leaf("projectName")

\* the keys the file of a layer defines in the dictionary under a top-level key
NestedKeys(l, key) == {p[2] : p \in {q \in files[l].paths : q[1] = key /\ Len(q) = 2}}

\* C26: get_config(name) layers the dictionary under a top-level key as well:
\* every nested key that <name>.json defines in some configuration directory
\* is in the result, with the value it has in the first directory that
\* defines that nested key in the order of the layers.
C26_NestedLayered ==
    last \in ConfigNames =>
        LET with == LayersWithFile(last)
            defining(nested) == SelectSeq(with, LAMBDA l : nested \in NestedKeys(l, "layer"))
        IN \A nested \in UNION {NestedKeys(l, "layer") : l \in Range(with)} :
              /\ "layer" \in DOMAIN config_sum
              /\ nested \in DOMAIN config_sum["layer"]
              /\ config_sum["layer"][nested] = defining(nested)[1]

\* the handlers that change what the proxy model filters out
FilterHandlers == {"filterPatternChanged", "showExternalPackages", "toggleUnselectedVisibility"}

\* C27: whatever filter and selection changes were made, the selection of the
\* list is the full selection restricted to the displayed modules, and a
\* filter change leaves the full selection as it was: a selected module that a
\* filter hides is selected in the list again once it is displayed again.
C27_SelectionPreserved ==
    /\ [](widget.viewSelection = widget.fullSelection \cap widget.displayed)
    /\ [][last' \in FilterHandlers => widget'.fullSelection = widget.fullSelection]_vars

\* the external module is selected in the list right after the show-external
\* box was ticked on: it was selected, then hidden, and is displayed again
C27_ReselectedWhenShown ==
    /\ last = "showExternalPackages" /\ widget._showExternal
    /\ <<"external">> \in widget.viewSelection
    /\ widget.fullSelection # widget._modules

\* C28: Select All and Deselect All change the selection state of the
\* displayed modules only: Select All selects every displayed module,
\* Deselect All deselects every displayed module, and a module the filter
\* hides stays in or out of the full selection as it was.
C28_HiddenKeepState ==
    [][last' \in {"selectAll", "clearSelection"} =>
        /\ widget'.displayed = widget.displayed
        /\ \A m \in ModuleNames \ widget.displayed :
              (m \in widget'.fullSelection) = (m \in widget.fullSelection)
        /\ last' = "selectAll" => widget.displayed \subseteq widget'.fullSelection
        /\ last' = "clearSelection" => widget.displayed \cap widget'.fullSelection = {}]_vars

\* Select All ran while the filter hid a selected module and a module that is
\* not selected
C28_SelectAllFiltered ==
    /\ last = "selectAll" /\ widget.displayed # {}
    /\ (widget._modules \ widget.displayed) \cap widget.fullSelection # {}
    /\ (widget._modules \ widget.displayed) \ widget.fullSelection # {}

\* the modules that pass the pattern and the show-external filter
PassOtherFilters(w) ==
    {m \in w._modules : Matches(w.pattern, m) /\ (IsExternal(m) => w._showExternal)}

\* C29: while hide-unselected is enabled, the displayed modules are exactly
\* the selected modules that pass the other filters.
C29_OnlySelectedDisplayed ==
    widget._hideUnselected =>
        widget.displayed = widget.fullSelection \cap PassOtherFilters(widget)

PublicParts == SelectSeq(enumModule, LAMBDA part : ~StartsWithUnderscore(part))

\* C31: the variable name of a member is '<part>_<lowercased name>' when the
\* module path has one part that does not start with an underscore and
\* '<first part>_<last part>_<lowercased name>' when it has more, and two
\* members of the class whose lowercased names differ have different
\* variable names.
C31_VariableName ==
    /\ \A name \in DOMAIN _variable :
          /\ Len(PublicParts) = 1 =>
                _variable[name] = PublicParts[1] \o "_" \o Lower(name)
          /\ Len(PublicParts) > 1 =>
                _variable[name] = PublicParts[1] \o "_" \o PublicParts[Len(PublicParts)]
                                    \o "_" \o Lower(name)
    /\ \A a, b \in DOMAIN _variable :
          Lower(a) # Lower(b) => _variable[a] # _variable[b]

\* every member is made in a module whose path has three parts, the middle one
\* starting with an underscore
C31_ThreeMembers ==
    /\ DOMAIN _variable = MemberNames
    /\ Len(enumModule) = 3 /\ StartsWithUnderscore(enumModule[2])
    /\ Len(PublicParts) = 2 /\ PublicParts[1] # PublicParts[2]

\* the scriptJobs whose event fired and that are still subscribed: each of them
\* calls finalize() when the host is idle
TriggeredJobs == pend \cap {j.id : j \in jobs}

\* C32: a save cycle on an active session does not end it: when the after-save
\* callbacks have run, the session is active with the shapeToEdges and the
\* subscriptions it had before them, and no scriptJob of the session has been
\* triggered, so no finalize() follows from the cycle.
C32_SaveCycleKeepsSession ==
    [][(last' = "afterSave" /\ Active(sd)) =>
          /\ Active(sd')
          /\ sd'.shapeToEdges = sd.shapeToEdges
          /\ jobs' = jobs /\ cbs' = cbs
          /\ TriggeredJobs' = {}]_vars

\* how many times a task waits in the deferred queue
Scheduled(task) == Cardinality({i \in DOMAIN dq : dq[i] = task})

\* C33: the body of finalize() runs at most once for a session and its deferred
\* clean up and clear are scheduled at most once: finalize() never runs while
\* the deferred clear of an earlier finalize() is still waiting, and the
\* deferred queue never holds two clean ups or two clears.
C33_FinalizeOnce ==
    /\ [](Scheduled("_cleanUp") <= 1 /\ Scheduled("clear") <= 1)
    /\ [][last' \in {"finalize", "reinvoked"} => Scheduled("clear") = 0]_vars

\* C34: a scene-new event that fires while the deferred tasks of finalize()
\* are waiting drops the session; a deferred clean up or clear that then finds
\* the session dropped and nothing selected deletes no node, changes no current
\* UV set, releases no handle (none for a second time) and leaves every field
\* of the session data empty.
C34_SceneNewDropsSession ==
    /\ [][(last' = "newScene" /\ dq # <<>>) => sd' = EmptySessionData]_vars
    /\ [][(last' \in {"_cleanUp", "clear"} /\ sd = EmptySessionData /\ sel = <<>>) =>
            /\ hist' = hist /\ uv' = uv
            /\ jobs' = jobs /\ cbs' = cbs /\ dbl' = dbl
            /\ sd' = EmptySessionData]_vars

\* C35: every entry of previousUVSets names the UV set that was current on its
\* shape before the session started (no operation but the session's changes
\* which UV set is current), never the scratch UV set.
C35_PreviousUVSetsOriginal ==
    \A i \in DOMAIN sd.previousUVSets :
        /\ sd.previousUVSets[i] # WorkingUVSet
        /\ i \in DOMAIN sd.shapeToEdges
        /\ sd.previousUVSets[i] = InitUV[sd.shapeToEdges[i].shape]

\* C36: no operation of the session changes the seams of a UV set that a shape
\* had before the session: every cut and every projection edits the scratch
\* UV set.
C36_OriginalSeamsKept == oseams = OrigSeams

\* the session was restored after a save: the edges of shape A were cut again,
\* on its scratch UV set
C36_CutAfterSave ==
    /\ last = "afterSave"
    /\ \E i \in DOMAIN sd.shapeToEdges : sd.shapeToEdges[i].shape = "A"
    /\ uv["A"] = WorkingUVSet /\ seams["A"] # {} /\ seams["A"] # OrigSeams["A"]

\* the edge numbers of the identifiers of a list that are on a shape or on its
\* transform, in the order of the list
NumbersOn(items, shape) ==
    LET mine == SelectSeq(items, LAMBDA it : ShapeOf(it.obj) = shape)
    IN [n \in DOMAIN mine |-> mine[n].id]

\* the four sources of edges of the edge selection step, in the order it reads them
EdgeSources ==
    <<FilterExpand(sel, "e"), _getEdgesFromSelectedFaces(sel, config),
      _getEdgesFromSelectedVertices(sel, config),
      _getEdgesFromSelectedVertexFaces(sel, config)>>

\* C37: the edge list of each shape is the concatenation of the raw selected
\* edges, the edges from faces, the edges from vertices and the edges from
\* vertex faces of that shape, each in the order they were produced, and the
\* lists of all shapes hold as many identifiers as the four sources produced.
C37_SourcesConcatenated ==
    last = "edges" =>
        /\ \A k \in DOMAIN out.all :
              [n \in DOMAIN out.all[k].edges |-> out.all[k].edges[n].id]
                = NumbersOn(EdgeSources[1], out.all[k].shape)
                    \o NumbersOn(EdgeSources[2], out.all[k].shape)
                    \o NumbersOn(EdgeSources[3], out.all[k].shape)
                    \o NumbersOn(EdgeSources[4], out.all[k].shape)
        /\ Len(Flatten([k \in DOMAIN out.all |-> out.all[k].edges]))
             = Len(EdgeSources[1]) + Len(EdgeSources[2]) + Len(EdgeSources[3])
                 + Len(EdgeSources[4])

\* the edge selection step ran with all four sources producing edges, one edge
\* produced twice
C37_EdgeFromTwoSources ==
    /\ last = "edges"
    /\ \A i \in 1..4 : EdgeSources[i] # <<>>
    /\ \E k \in DOMAIN out.all :
          Len(out.all[k].edges) > Cardinality(Range(out.all[k].edges))

\* C38: the partition keys every edge by its mesh shape: every key is a mesh
\* shape, no shape has two entries, no entry is empty, every identifier of an
\* entry names an edge of the entry's shape, and an edge given through a
\* transform is in the entry of the mesh shape of that transform.
C38_KeyedByMeshShape ==
    last = "edges" =>
        /\ \A k \in DOMAIN out.all :
              /\ IsMesh(out.all[k].shape)
              /\ out.all[k].edges # <<>>
              /\ \A n \in DOMAIN out.all[k].edges :
                    /\ out.all[k].edges[n].obj = out.all[k].shape
                    /\ out.all[k].edges[n].type = "e"
              /\ \A j \in DOMAIN out.all : out.all[j].shape = out.all[k].shape => j = k
        /\ \A i \in 1..4 : \A n \in DOMAIN EdgeSources[i] :
              \E k \in DOMAIN out.all :
                 /\ out.all[k].shape = ShapeOf(EdgeSources[i][n].obj)
                 /\ Item(out.all[k].shape, "e", EdgeSources[i][n].id) \in Range(out.all[k].edges)

\* edges of one mesh were selected partly through its transform and partly
\* through its shape, and the partition has a single entry
C38_TransformAndShape ==
    /\ last = "edges" /\ Len(out.all) = 1
    /\ \E a, b \in Range(FilterExpand(sel, "e")) :
          IsTransform(a.obj) /\ IsMesh(b.obj) /\ ShapeOf(a.obj) = b.obj

\* the component select type that matches an output component type
MatchingSelectType(t) ==
    CASE t = "edge" -> "polymeshEdge"
      [] t = "face" -> "polymeshFace"
      [] t = "vertex" -> "polymeshVertex"

\* C39: when finalize() returns, the selection consists of components of the output
\* type configured at that time and the component select type is the one that
\* matches it: polymeshEdge for edge output, polymeshFace for face output,
\* polymeshVertex for vertex output.
C39_MatchingSelectType ==
    last = "finalize" =>
        /\ stype = MatchingSelectType(config.outputType)
        /\ \A i \in DOMAIN sel : sel[i].type = OutputItemType(config.outputType)

====
